---- MODULE Spec2Model ----
(***************************************************************************)
(* Model of the channel engine GameNetAPI (src/src/Objects/GameNetAPI.py)  *)
(* and of the counters of NetworkMetrics (src/src/Objects/NetworkMetrics.py)*)
(*                                                                         *)
(* One engine object `api` is modelled with both of its halves: the sender *)
(* window with the retransmit sweep, and the reorder buffer with the       *)
(* cumulative-ACK emitter.  Bytes are integers 0..255, a frame on the wire *)
(* is a sequence of bytes, time is counted in ticks of 100 ms.             *)
(*                                                                         *)
(* The one-way latency vectors and the jitter estimates of NetworkMetrics  *)
(* are floating-point statistics that no operation of the engine reads     *)
(* back; they are not part of the modelled state.                          *)
(***************************************************************************)
EXTENDS Integers, Sequences, FiniteSets, TLC

VARIABLES
    api,              \* the GameNetAPI object (its fields, metrics included)
    now,              \* time.time(), in ticks of 100 ms
    callback_log,     \* every invocation of receiver_callback, in order
    conn,             \* what the last operation handed to the connection
    calls,            \* the send_packet coroutines: one record per caller
    retransmit_task,  \* the start_retransmit_loop task
    peer_stream,      \* bytes the peer wrote on stream 0 that are not read yet
    peer_written,     \* the frames the peer wrote on stream 0, in order
    peer_world,       \* the peer's engine, with its callbacks and its last output
    stream_buffers,   \* GameNetClientProtocol.stream_buffers[0]
    last_op           \* the operation that produced this state, with its input

vars == <<api, now, callback_log, conn, calls, retransmit_task, peer_stream,
          peer_written, peer_world, stream_buffers, last_op>>

peer == <<peer_stream, peer_written, peer_world, stream_buffers>>

----------------------------------------------------------------------------
(* Bounds of the model *)

MaxSeq == 6          \* reliable seqnos the sender assigns
MaxRecvSeq == 5      \* reliable seqnos the peer sends
MaxTime == 6         \* ticks of 100 ms the clock runs
MaxSendTime == 1     \* last tick at which the application starts a reliable send
MaxAck == 7          \* largest ACK value a received frame carries
MaxUnreliable == 3   \* unreliable sends / unreliable frames received
NumCallers == 2      \* concurrent send_packet calls
MaxRoundTrip == 3     \* frames the peer sends in the round-trip scenario
MaxPeerAcks == 3     \* ACKs the peer emits in SpecPeerLoss
MaxStreamFrames == 2 \* frames the peer writes on the stream in SpecStream

(* Program constants, in ticks of 100 ms where they are times *)

window_size == 5            \* GameNetAPI.py:60
retransmit_timeout == 5     \* GameNetAPI.py:52  (0.5 s, the give-up threshold)
retransmit_interval == 1    \* GameNetAPI.py:53  (0.1 s)
sweep_period == 1           \* GameNetAPI.py:209 (asyncio.sleep(0.1))
HeaderLen == 9              \* GameNetAPI.py:240 (struct "!BHIH")
TickMs == 100               \* milliseconds in one tick

----------------------------------------------------------------------------
(* Small helpers *)

Min(a, b) == IF a < b THEN a ELSE b
Max(a, b) == IF a > b THEN a ELSE b

Pow2(n) == 2 ^ n

SetMax(S) == CHOOSE x \in S : \A y \in S : y <= x

\* f without key k (del f[k])
Del(f, k) == [x \in (DOMAIN f) \ {k} |-> f[x]]

\* f with f[k] = v (f[k] = v, inserting the key when absent)
Put(f, k, v) == [x \in (DOMAIN f) \cup {k} |-> IF x = k THEN v ELSE f[x]]

EmptyMap == [x \in {} |-> 0]

\* data[from .. to-1], Python's data[from:to] (0-based, clipped at the end)
Slice(data, from, to) ==
    IF Min(to, Len(data)) <= from THEN << >>
    ELSE SubSeq(data, from + 1, Min(to, Len(data)))

\* the byte strings of a sequence joined in order
RECURSIVE Concat(_)
Concat(frames) ==
    IF frames = << >> THEN << >> ELSE Head(frames) \o Concat(Tail(frames))

----------------------------------------------------------------------------
(* Framer: struct.pack / struct.unpack with the format "!BHIH" *)

\* struct.pack("!BHIH", ...) raises struct.error when a field is out of range
PackFits(channel_type, seqno, timestamp, payload_len) ==
    /\ channel_type \in 0..255
    /\ seqno \in 0..65535
    /\ timestamp >= 0 /\ timestamp \div Pow2(16) < Pow2(16)
    /\ payload_len \in 0..65535

\* struct.pack("!BHIH", channel_type, seqno, timestamp, payload_len)
Pack(channel_type, seqno, timestamp, payload_len) ==
    << channel_type,
       seqno \div 256, seqno % 256,
       (timestamp \div Pow2(24)) % 256, (timestamp \div Pow2(16)) % 256,
       (timestamp \div 256) % 256, timestamp % 256,
       payload_len \div 256, payload_len % 256 >>

\* struct.unpack("!BHIH", header_data) on 9 bytes
Unpack(h) ==
    [ channel_type |-> h[1],
      seqno        |-> h[2] * 256 + h[3],
      timestamp    |-> h[4] * Pow2(24) + h[5] * Pow2(16) + h[6] * 256 + h[7],
      payload_len  |-> h[8] * 256 + h[9] ]

\* x & 0xFFFFFFFF, computed on 16-bit halves
Mask32(x) == (x % Pow2(16)) + Pow2(16) * ((x \div Pow2(16)) % Pow2(16))

\* int(time.time() * 1000) & 0xFFFFFFFF at tick t
TimestampMs(t) == Mask32(t * TickMs)

\* bytes.decode("utf-8", errors="ignore").  In the byte alphabet of this model
\* no byte >= 128 is ever followed by a continuation byte (0x80..0xBF), so
\* every such byte is an invalid sequence of its own and is dropped; bytes
\* below 128 decode to themselves.
DecodeUtf8Ignore(bytes) == SelectSeq(bytes, LAMBDA b : b < 128)

\* len(payload_str.encode("utf-8")) of a decoded string of ASCII characters
EncodedLen(str) == Len(str)

\* a data frame as send_packet forms it (header + payload)
DataFrame(channel_type, seqno, timestamp, payload) ==
    Pack(channel_type, seqno, timestamp, Len(payload)) \o payload

\* the ACK frame process_received_data forms: flag 0b10, empty payload
AckFrame(ack_seqno, t) == Pack(2, ack_seqno, TimestampMs(t), 0)

----------------------------------------------------------------------------
(* NetworkMetrics *)

\* NetworkMetrics.__init__ (the counters; start_time is the construction time)
MetricsInit ==
    [ total_sent |-> 0, total_sent_reliable |-> 0, total_sent_unreliable |-> 0,
      bytes_sent_reliable |-> 0, bytes_sent_unreliable |-> 0,
      total_received |-> 0, total_recv_reliable |-> 0, total_recv_unreliable |-> 0,
      bytes_recv_reliable |-> 0, bytes_recv_unreliable |-> 0,
      rtt_records |-> 0,
      max_seen_reliable_seqno |-> 0, max_seen_unreliable_seqno |-> 0,
      received_reliable_seqnos |-> {}, received_unreliable_seqnos |-> {} ]

record_packet_sent(m, payload_size, is_reliable) ==
    IF is_reliable
    THEN [m EXCEPT !.total_sent = @ + 1,
                   !.total_sent_reliable = @ + 1,
                   !.bytes_sent_reliable = @ + payload_size]
    ELSE [m EXCEPT !.total_sent = @ + 1,
                   !.total_sent_unreliable = @ + 1,
                   !.bytes_sent_unreliable = @ + payload_size]

\* record_packet_received together with the seqno tracking of
\* _update_latency_and_jitter
record_packet_received(m, payload_size, seqno, is_reliable) ==
    IF is_reliable
    THEN [m EXCEPT !.total_received = @ + 1,
                   !.total_recv_reliable = @ + 1,
                   !.bytes_recv_reliable = @ + payload_size,
                   !.received_reliable_seqnos = @ \cup {seqno},
                   !.max_seen_reliable_seqno = Max(@, seqno)]
    ELSE [m EXCEPT !.total_received = @ + 1,
                   !.total_recv_unreliable = @ + 1,
                   !.bytes_recv_unreliable = @ + payload_size,
                   !.received_unreliable_seqnos = @ \cup {seqno},
                   !.max_seen_unreliable_seqno = Max(@, seqno)]

\* record_rtt: rtt_records is an append-only list of float durations that
\* only the report averages; the model keeps the number of samples in it
record_rtt(m, rtt) == [m EXCEPT !.rtt_records = @ + 1]

\* The labels a report is asked for, each as the set of the words it
\* contains ("Sender" in label, "Receiver" in label)
Labels == SUBSET {"Sender", "Receiver"}

\* delivery_ratio_pct of get_metrics_report(label) for one channel, as the
\* fraction num / den (the code divides floats; 0.0 is 0 / 1)
delivery_ratio_pct(m, label, is_reliable) ==
    LET is_receiver == "Receiver" \in label
        received == IF is_reliable THEN m.total_recv_reliable
                    ELSE m.total_recv_unreliable
        expected == IF is_receiver
                    THEN IF is_reliable THEN m.max_seen_reliable_seqno
                         ELSE m.max_seen_unreliable_seqno
                    ELSE IF is_reliable THEN m.total_sent_reliable
                         ELSE m.total_sent_unreliable
    IN  IF expected > 0 THEN [num |-> received * 100, den |-> expected]
        ELSE [num |-> 0, den |-> 1]

\* packets_lost of get_metrics_report for one channel, counted against the
\* packets this side sent, as the sender-side delivery ratio is
packets_lost_from_sent(m, is_reliable) ==
    IF is_reliable
    THEN m.total_sent_reliable - Cardinality(m.received_reliable_seqnos)
    ELSE m.total_sent_unreliable - Cardinality(m.received_unreliable_seqnos)

\* packets_lost of get_metrics_report for one channel
\* (lost_reliable, lost_unreliable)
packets_lost(m, is_reliable) ==
    IF is_reliable
    THEN m.max_seen_reliable_seqno - Cardinality(m.received_reliable_seqnos)
    ELSE m.max_seen_unreliable_seqno - Cardinality(m.received_unreliable_seqnos)

\* The methods the class NetworkMetrics defines.  Looking up any other name
\* on a NetworkMetrics object raises AttributeError.
MetricsMethods ==
    { "record_packet_sent", "record_packet_received", "record_rtt",
      "_update_latency_and_jitter", "get_metrics_report", "print_metrics" }

----------------------------------------------------------------------------
(* GameNetAPI: construction *)

\* GameNetAPI.__init__
ApiInit ==
    [ stream_buffer |-> << >>,
      reliable_seqno |-> 0,
      unreliable_seqno |-> 0,
      pending_acks |-> EmptyMap,
      reliable_buffer |-> EmptyMap,
      packet_arrival_times |-> {},
      next_expected_reliable_seqno |-> 1,
      receiver_callback |-> FALSE,
      missing_packet_timers |-> EmptyMap,
      base |-> 1,
      next_seqno |-> 1,
      acked_packets |-> {},
      metrics |-> MetricsInit ]

\* The engine together with what its operations do to the outside: the calls
\* of the receive callback, the frames handed to the connection, and the
\* exception an operation ends with ("none" when it returns).
World(a, log) == [api |-> a, log |-> log, conn |-> << >>, exc |-> "none"]

\* connection._quic.send_stream_data(0, data) followed by connection.transmit()
send_stream_data(w, data) ==
    [w EXCEPT !.conn = Append(@, [kind |-> "stream", data |-> data])]

\* connection._quic.send_datagram_frame(data) followed by connection.transmit()
send_datagram_frame(w, data) ==
    [w EXCEPT !.conn = Append(@, [kind |-> "datagram", data |-> data])]

----------------------------------------------------------------------------
(* Sender half: send_packet, process_ack, check_retransmissions *)

\* the window test off by one: a send goes ahead with window_size records
\* already in flight
WindowFull_off_by_one(a) == a.next_seqno > a.base + window_size

\* the test of the window-wait loop: while next_seqno >= base + window_size
WindowFull(a) == a.next_seqno >= a.base + window_size

\* send_packet_dispatch with one seqno counter for both channels: an
\* unreliable send takes its seqno from next_seqno and moves it
send_packet_dispatch_one_counter(w, full_timestamp, payload, is_reliable) ==
    LET timestamp == TimestampMs(full_timestamp)
        payload_len == Len(payload)
        seqno == w.api.next_seqno
        channel_type == IF is_reliable THEN 0 ELSE 1
        w1 == [w EXCEPT !.api.next_seqno = @ + 1]
    IN  IF ~PackFits(channel_type, seqno, timestamp, payload_len)
        THEN [w1 EXCEPT !.exc = "struct.error"]
        ELSE
        LET packet_data == DataFrame(channel_type, seqno, timestamp, payload)
            w2 == [w1 EXCEPT !.api.metrics =
                       record_packet_sent(@, payload_len, is_reliable)]
        IN  IF is_reliable
            THEN send_stream_data(
                   [w2 EXCEPT !.api.pending_acks =
                       Put(@, seqno,
                           [ first_sent |-> full_timestamp,
                             last_sent |-> full_timestamp,
                             packet_data |-> packet_data,
                             retransmit_count |-> 0,
                             payload_size |-> payload_len ])],
                   packet_data)
            ELSE send_datagram_frame(w2, packet_data)

\* send_packet from the assignment of the seqno to the dispatch: the part of
\* the coroutine that runs with no suspension point.  full_timestamp is the
\* time read at the entry of send_packet.
send_packet_dispatch(w, full_timestamp, payload, is_reliable) ==
    LET timestamp == TimestampMs(full_timestamp)
        payload_len == Len(payload)
        seqno == IF is_reliable THEN w.api.next_seqno
                 ELSE w.api.unreliable_seqno + 1
        channel_type == IF is_reliable THEN 0 ELSE 1
        w1 == IF is_reliable
              THEN [w EXCEPT !.api.next_seqno = @ + 1]
              ELSE [w EXCEPT !.api.unreliable_seqno = @ + 1]
    IN  IF ~PackFits(channel_type, seqno, timestamp, payload_len)
        THEN [w1 EXCEPT !.exc = "struct.error"]
        ELSE
        LET packet_data == DataFrame(channel_type, seqno, timestamp, payload)
            w2 == [w1 EXCEPT !.api.metrics =
                       record_packet_sent(@, payload_len, is_reliable)]
        IN  IF is_reliable
            THEN send_stream_data(
                   [w2 EXCEPT !.api.pending_acks =
                       Put(@, seqno,
                           [ first_sent |-> full_timestamp,
                             last_sent |-> full_timestamp,
                             packet_data |-> packet_data,
                             retransmit_count |-> 0,
                             payload_size |-> payload_len ])],
                   packet_data)
            ELSE send_datagram_frame(w2, packet_data)

\* the loop of process_ack: for seq in range(base, min(seqno + 1, next_seqno))
RECURSIVE process_ack_loop(_, _, _, _)
process_ack_loop(w, seq, stop, t) ==
    IF seq >= stop THEN w
    ELSE
    LET w1 == IF seq \in DOMAIN w.api.pending_acks
              THEN [w EXCEPT
                      !.api.metrics =
                          record_rtt(@, t - w.api.pending_acks[seq].first_sent),
                      !.api.pending_acks = Del(@, seq)]
              ELSE w
        w2 == [w1 EXCEPT !.api.acked_packets = @ \cup {seq}]
    IN  process_ack_loop(w2, seq + 1, stop, t)

\* process_ack that resolves range(base, seqno): the acknowledged seqno itself
\* keeps its in-flight record
process_ack_exclusive(w, seqno, t) ==
    LET w1 == process_ack_loop(w, w.api.base,
                               Min(seqno, w.api.next_seqno), t)
    IN  [w1 EXCEPT !.api.base = Max(@, seqno + 1)]

\* process_ack that sets base to seqno + 1 without the max: a late ACK moves
\* base backwards
process_ack_no_max(w, seqno, t) ==
    LET w1 == process_ack_loop(w, w.api.base,
                               Min(seqno + 1, w.api.next_seqno), t)
    IN  [w1 EXCEPT !.api.base = seqno + 1]

\* process_ack(seqno) at time t
process_ack(w, seqno, t) ==
    LET w1 == process_ack_loop(w, w.api.base,
                               Min(seqno + 1, w.api.next_seqno), t)
    IN  [w1 EXCEPT !.api.base = Max(@, seqno + 1)]

\* self.metrics.<name>(...): the attribute lookup on the NetworkMetrics object
metrics_lookup(w, name) ==
    IF name \in MetricsMethods THEN w
    ELSE [w EXCEPT !.exc = "AttributeError"]

\* while self.base in self.acked_packets: self.base += 1
RECURSIVE advance_base(_, _)
advance_base(base, acked_packets) ==
    IF base \in acked_packets THEN advance_base(base + 1, acked_packets)
    ELSE base

\* the loop of check_retransmissions: for seqno in range(base, next_seqno),
\* the range being fixed when the loop starts
RECURSIVE check_retransmissions_loop(_, _, _, _)
check_retransmissions_loop(w, seqno, stop, current_time) ==
    IF seqno >= stop THEN w
    ELSE IF ~(seqno \in DOMAIN w.api.pending_acks
              /\ seqno \notin w.api.acked_packets)
    THEN check_retransmissions_loop(w, seqno + 1, stop, current_time)
    ELSE
    LET packet_info == w.api.pending_acks[seqno]
        elapsed_total == current_time - packet_info.first_sent
        elapsed_since_last == current_time - packet_info.last_sent
    IN  IF elapsed_total > retransmit_timeout
        THEN \* give up: self.metrics.record_packet_lost(...) comes first
             LET w1 == metrics_lookup(w, "record_packet_lost")
             IN  IF w1.exc # "none" THEN w1
                 ELSE
                 LET w2 == [w1 EXCEPT !.api.pending_acks = Del(@, seqno),
                                      !.api.acked_packets = @ \cup {seqno}]
                     w3 == [w2 EXCEPT !.api.base =
                               advance_base(@, w2.api.acked_packets)]
                 IN  check_retransmissions_loop(w3, seqno + 1, stop,
                                                current_time)
        ELSE IF elapsed_since_last >= retransmit_interval
        THEN LET w1 == send_stream_data(w, packet_info.packet_data)
                 w2 == [w1 EXCEPT
                          !.api.pending_acks[seqno].last_sent = current_time,
                          !.api.pending_acks[seqno].retransmit_count = @ + 1]
             IN  check_retransmissions_loop(w2, seqno + 1, stop, current_time)
        ELSE check_retransmissions_loop(w, seqno + 1, stop, current_time)

\* the sweep's loop with the give-up clock restarted by every retransmission
RECURSIVE check_retransmissions_loop_by_last_sent(_, _, _, _)
check_retransmissions_loop_by_last_sent(w, seqno, stop, current_time) ==
    IF seqno >= stop THEN w
    ELSE IF ~(seqno \in DOMAIN w.api.pending_acks
              /\ seqno \notin w.api.acked_packets)
    THEN check_retransmissions_loop_by_last_sent(w, seqno + 1, stop, current_time)
    ELSE
    LET packet_info == w.api.pending_acks[seqno]
        elapsed_since_last == current_time - packet_info.last_sent
    IN  IF elapsed_since_last > retransmit_timeout
        THEN metrics_lookup(w, "record_packet_lost")
        ELSE IF elapsed_since_last >= retransmit_interval
        THEN LET w1 == send_stream_data(w, packet_info.packet_data)
                 w2 == [w1 EXCEPT
                          !.api.pending_acks[seqno].last_sent = current_time,
                          !.api.pending_acks[seqno].retransmit_count = @ + 1]
             IN  check_retransmissions_loop_by_last_sent(w2, seqno + 1, stop,
                                                         current_time)
        ELSE check_retransmissions_loop_by_last_sent(w, seqno + 1, stop,
                                                     current_time)

\* check_retransmissions giving up by the time since the last transmission
check_retransmissions_by_last_sent(w, current_time) ==
    check_retransmissions_loop_by_last_sent(w, w.api.base, w.api.next_seqno,
                                            current_time)

\* check_retransmissions whose loop starts at seqno 1 instead of base
check_retransmissions_from_one(w, current_time) ==
    check_retransmissions_loop(w, 1, w.api.next_seqno, current_time)

\* check_retransmissions() at time current_time
check_retransmissions(w, current_time) ==
    check_retransmissions_loop(w, w.api.base, w.api.next_seqno, current_time)

----------------------------------------------------------------------------
(* Receiver half: _check_and_skip_missing_packets, process_received_data *)

\* check_and_skip_step that skips a missing seqno at its first sighting,
\* without starting a timer and waiting for it to expire
check_and_skip_step_no_wait(w, expected_seqno, arrived_seqnos, current_time) ==
    LET timers == w.api.missing_packet_timers
    IN  IF expected_seqno \notin arrived_seqnos
        THEN [w EXCEPT
                !.api.missing_packet_timers =
                    IF expected_seqno \in DOMAIN timers
                    THEN Del(@, expected_seqno) ELSE @,
                !.api.next_expected_reliable_seqno =
                    IF expected_seqno = @ THEN @ + 1 ELSE @]
        ELSE IF expected_seqno \in DOMAIN timers
             THEN [w EXCEPT !.api.missing_packet_timers =
                                Del(@, expected_seqno)]
             ELSE w

\* one iteration of the loop of _check_and_skip_missing_packets, arrived_seqnos
\* being the keys of reliable_buffer when the call starts
check_and_skip_step(w, expected_seqno, arrived_seqnos, current_time) ==
    LET timers == w.api.missing_packet_timers
    IN  IF expected_seqno \notin arrived_seqnos
        THEN IF expected_seqno \notin DOMAIN timers
             THEN [w EXCEPT !.api.missing_packet_timers =
                                Put(@, expected_seqno, current_time)]
             ELSE IF current_time - timers[expected_seqno] > retransmit_timeout
             THEN [w EXCEPT
                     !.api.missing_packet_timers = Del(@, expected_seqno),
                     !.api.next_expected_reliable_seqno =
                         IF expected_seqno = @ THEN @ + 1 ELSE @]
             ELSE w
        ELSE IF expected_seqno \in DOMAIN timers
             THEN [w EXCEPT !.api.missing_packet_timers =
                                Del(@, expected_seqno)]
             ELSE w

\* the loop of _check_and_skip_missing_packets:
\* for expected_seqno in range(next_expected_reliable_seqno, max_arrived + 1).
\* The iterations run in increasing order of expected_seqno; the range is
\* halved at each level only to keep the depth of the evaluation small.
RECURSIVE check_and_skip_loop(_, _, _, _, _)
check_and_skip_loop(w, expected_seqno, stop, arrived_seqnos, current_time) ==
    IF expected_seqno >= stop THEN w
    ELSE IF stop = expected_seqno + 1
    THEN check_and_skip_step(w, expected_seqno, arrived_seqnos, current_time)
    ELSE
    LET mid == (expected_seqno + stop) \div 2
        lower == check_and_skip_loop(w, expected_seqno, mid, arrived_seqnos,
                                     current_time)
    IN  IF lower.exc # "none" THEN lower
        ELSE check_and_skip_loop(lower, mid, stop, arrived_seqnos, current_time)

\* _check_and_skip_missing_packets() at time current_time
check_and_skip_missing_packets(w, current_time) ==
    LET arrived_seqnos == DOMAIN w.api.reliable_buffer
    IN  IF arrived_seqnos = {} THEN w
        ELSE check_and_skip_loop(w, w.api.next_expected_reliable_seqno,
                                 SetMax(arrived_seqnos) + 1, arrived_seqnos,
                                 current_time)

\* while self.next_expected_reliable_seqno in self.reliable_buffer: deliver
RECURSIVE deliver_in_order(_)
deliver_in_order(w) ==
    LET nxt == w.api.next_expected_reliable_seqno
    IN  IF nxt \notin DOMAIN w.api.reliable_buffer THEN w
        ELSE
        LET pkt == w.api.reliable_buffer[nxt]
            w1 == [w EXCEPT
                     !.api.reliable_buffer = Del(@, nxt),
                     !.api.metrics =
                         record_packet_received(@, EncodedLen(pkt[3]), pkt[1],
                                                TRUE)]
            w2 == IF w1.api.receiver_callback
                  THEN [w1 EXCEPT !.log = Append(@, pkt)]
                  ELSE w1
        IN  deliver_in_order(
              [w2 EXCEPT !.api.next_expected_reliable_seqno = @ + 1])

\* process_reliable_frame with one cursor shared by the two halves: the
\* sender's base follows the receiver's next expected seqno
process_reliable_frame_shared_cursor(w, seqno, actual_channel, payload, timestamp, t) ==
    LET w1 == [w EXCEPT
                 !.api.packet_arrival_times = @ \cup {seqno},
                 !.api.reliable_buffer =
                     Put(@, seqno, <<seqno, actual_channel, payload, timestamp>>)]
        w2 == check_and_skip_missing_packets(w1, t)
        w3 == deliver_in_order(w2)
        w4 == [w3 EXCEPT !.api.base =
                  Max(@, w3.api.next_expected_reliable_seqno)]
        ack_seqno == w4.api.next_expected_reliable_seqno - 1
    IN  IF ack_seqno > 0
        THEN send_stream_data(w4, AckFrame(ack_seqno, t))
        ELSE w4

\* process_reliable_frame acknowledging the frame that arrived instead of the
\* cursor
process_reliable_frame_ack_arrived(w, seqno, actual_channel, payload, timestamp, t) ==
    LET w1 == [w EXCEPT
                 !.api.packet_arrival_times = @ \cup {seqno},
                 !.api.reliable_buffer =
                     Put(@, seqno, <<seqno, actual_channel, payload, timestamp>>)]
        w2 == check_and_skip_missing_packets(w1, t)
        w3 == deliver_in_order(w2)
    IN  send_stream_data(w3, AckFrame(seqno, t))

\* process_reliable_frame with the callback invoked on arrival, before the
\* reorder buffer has put the frame in its place
process_reliable_frame_on_arrival(w, seqno, actual_channel, payload, timestamp, t) ==
    LET w1 == [w EXCEPT
                 !.api.packet_arrival_times = @ \cup {seqno},
                 !.api.reliable_buffer =
                     Put(@, seqno, <<seqno, actual_channel, payload, timestamp>>),
                 !.log = IF w.api.receiver_callback /\ seqno # w.api.next_expected_reliable_seqno
                         THEN Append(@, <<seqno, actual_channel, payload, timestamp>>)
                         ELSE @]
        w2 == check_and_skip_missing_packets(w1, t)
        w3 == deliver_in_order(w2)
        ack_seqno == w3.api.next_expected_reliable_seqno - 1
    IN  IF ack_seqno > 0
        THEN send_stream_data(w3, AckFrame(ack_seqno, t))
        ELSE w3

\* process_reliable_frame with the ACK emitted only when the frame is the one
\* the cursor was waiting for
process_reliable_frame_ack_in_order(w, seqno, actual_channel, payload, timestamp, t) ==
    LET w1 == [w EXCEPT
                 !.api.packet_arrival_times = @ \cup {seqno},
                 !.api.reliable_buffer =
                     Put(@, seqno, <<seqno, actual_channel, payload, timestamp>>)]
        w2 == check_and_skip_missing_packets(w1, t)
        w3 == deliver_in_order(w2)
        ack_seqno == w3.api.next_expected_reliable_seqno - 1
    IN  IF ack_seqno > 0 /\ seqno <= ack_seqno
        THEN send_stream_data(w3, AckFrame(ack_seqno, t))
        ELSE w3

\* the reliable-data branch of process_received_data for one decoded frame.
\* packet_arrival_times is kept as the set of its keys: the times stored in it
\* are read into a local (arrival_ts) that nothing uses.
process_reliable_frame(w, seqno, actual_channel, payload, timestamp, t) ==
    LET w1 == [w EXCEPT
                 !.api.packet_arrival_times = @ \cup {seqno},
                 !.api.reliable_buffer =
                     Put(@, seqno, <<seqno, actual_channel, payload, timestamp>>)]
        w2 == check_and_skip_missing_packets(w1, t)
        w3 == deliver_in_order(w2)
        ack_seqno == w3.api.next_expected_reliable_seqno - 1
    IN  IF ack_seqno > 0
        THEN send_stream_data(w3, AckFrame(ack_seqno, t))
        ELSE w3

\* process_unreliable_frame that files the frame in the reorder buffer, as the
\* reliable branch does, instead of handing it to the callback
process_unreliable_frame_buffered(w, seqno, actual_channel, payload, timestamp) ==
    LET w1 == [w EXCEPT !.api.metrics =
                 record_packet_received(@, EncodedLen(payload), seqno, FALSE)]
    IN  [w1 EXCEPT !.api.reliable_buffer =
            Put(@, seqno, <<seqno, actual_channel, payload, timestamp>>)]

\* process_unreliable_frame that puts the newest frame first in the order of
\* the callbacks
process_unreliable_frame_newest_first(w, seqno, actual_channel, payload, timestamp) ==
    LET w1 == [w EXCEPT !.api.metrics =
                 record_packet_received(@, EncodedLen(payload), seqno, FALSE)]
    IN  IF w1.api.receiver_callback
        THEN [w1 EXCEPT !.log =
                 << <<seqno, actual_channel, payload, timestamp>> >> \o @]
        ELSE w1

\* the unreliable-data branch of process_received_data for one decoded frame
process_unreliable_frame(w, seqno, actual_channel, payload, timestamp) ==
    LET w1 == [w EXCEPT !.api.metrics =
                 record_packet_received(@, EncodedLen(payload), seqno, FALSE)]
    IN  IF w1.api.receiver_callback
        THEN [w1 EXCEPT !.log =
                 Append(@, <<seqno, actual_channel, payload, timestamp>>)]
        ELSE w1

\* process_frame taking a frame for an ACK only when its channel bit is clear
process_frame_ack_on_reliable_only(w, packet_data, t) ==
    LET h == Unpack(SubSeq(packet_data, 1, HeaderLen))
        payload == DecodeUtf8Ignore(Slice(packet_data, HeaderLen, Len(packet_data)))
        is_ack == h.channel_type = 2
        actual_channel == h.channel_type % 2
    IN  IF is_ack THEN process_ack(w, h.seqno, t)
        ELSE IF actual_channel = 0
        THEN process_reliable_frame(w, h.seqno, actual_channel, payload,
                                    h.timestamp, t)
        ELSE process_unreliable_frame(w, h.seqno, actual_channel, payload,
                                      h.timestamp)

\* one complete frame of the read, classified by its flags
process_frame(w, packet_data, t) ==
    LET h == Unpack(SubSeq(packet_data, 1, HeaderLen))
        payload == DecodeUtf8Ignore(Slice(packet_data, HeaderLen, Len(packet_data)))
        is_ack == (h.channel_type \div 2) % 2 = 1
        actual_channel == h.channel_type % 2
    IN  IF is_ack THEN process_ack(w, h.seqno, t)
        ELSE IF actual_channel = 0
        THEN process_reliable_frame(w, h.seqno, actual_channel, payload,
                                    h.timestamp, t)
        ELSE process_unreliable_frame(w, h.seqno, actual_channel, payload,
                                      h.timestamp)

\* the loop of process_received_data: while offset < len(data)
RECURSIVE process_received_data_loop(_, _, _, _)
process_received_data_loop(w, data, offset, t) ==
    IF offset >= Len(data) THEN w
    ELSE IF Len(data) - offset < HeaderLen THEN w      \* incomplete header: break
    ELSE
    LET h == Unpack(Slice(data, offset, offset + HeaderLen))
        total_packet_len == HeaderLen + h.payload_len
    IN  IF Len(data) - offset < total_packet_len THEN w \* incomplete packet: break
        ELSE process_received_data_loop(
               process_frame(w, Slice(data, offset, offset + total_packet_len), t),
               data, offset + total_packet_len, t)

\* process_received_data that handles one frame per read: what follows the
\* first frame in the data is left unprocessed
process_received_data_first_only(w, data, is_reliable, t) ==
    IF Len(data) < HeaderLen THEN w
    ELSE
    LET h == Unpack(Slice(data, 0, HeaderLen))
        total_packet_len == HeaderLen + h.payload_len
    IN  IF Len(data) < total_packet_len THEN w
        ELSE process_frame(w, Slice(data, 0, total_packet_len), t)

\* process_received_data(data, is_reliable) at time t; is_reliable, the
\* transport the bytes came on, is not read by the method
process_received_data(w, data, is_reliable, t) ==
    process_received_data_loop(w, data, 0, t)

----------------------------------------------------------------------------
(* The environment: callers of send_packet, the peer, the clock *)

Callers == 1..NumCallers

\* the payload the application sends
SendPayload == <<65>>

\* the reliable frame with seqno s as the peer sends it.  A peer forms the
\* frame of a seqno once and repeats it bit-identically on retransmission.
PeerPayload(s) == <<64 + s>>
PeerReliableFrame(s) == DataFrame(0, s, TimestampMs(0), PeerPayload(s))
PeerUnreliableFrame(s) == DataFrame(1, s, TimestampMs(0), PeerPayload(s))
PeerAckFrame(a) == Pack(2, a, TimestampMs(0), 0)

IdleCall == [pc |-> "idle", full_timestamp |-> 0, is_reliable |-> TRUE]

\* the number of send_packet calls suspended in the window-wait loop
Waiting == Cardinality({c \in Callers : calls[c].pc = "waiting"})

Op(name, arg) == [op |-> name, arg |-> arg]

\* the state after an operation that ended in world w
Apply(w) ==
    /\ api' = w.api
    /\ callback_log' = w.log
    /\ conn' = w.conn

Here == World(api, callback_log)

\* the peer's engine as constructed, its receive callback set
PeerInit == World([ApiInit EXCEPT !.receiver_callback = TRUE], << >>)

Init ==
    /\ api = ApiInit
    /\ now = 0
    /\ callback_log = << >>
    /\ conn = << >>
    /\ calls = [c \in Callers |-> IdleCall]
    /\ retransmit_task = [state |-> "none", wake |-> 0]
    /\ peer_stream = << >>
    /\ peer_written = << >>
    /\ peer_world = PeerInit
    /\ stream_buffers = << >>
    /\ last_op = Op("init", 0)

\* the retransmit task has slept its 0.1 s and is ready to run
SweepDue == retransmit_task.state = "sleeping" /\ now >= retransmit_task.wake

\* a send_packet suspended in the wait loop (asyncio.sleep(0.05)) will find
\* room in the window at its next wake-up
ResumeDue == \E c \in Callers : calls[c].pc = "waiting" /\ ~WindowFull(api)

\* the clock advances by 100 ms; a retransmit task that is ready to run and a
\* suspended send that has room (it polls every 50 ms) are scheduled by the
\* event loop before another 100 ms pass
Tick ==
    /\ now < MaxTime
    /\ ~SweepDue
    /\ ~ResumeDue
    /\ now' = now + 1
    /\ conn' = << >>
    /\ last_op' = Op("tick", 0)
    /\ UNCHANGED <<api, callback_log, calls, retransmit_task, peer>>

\* set_receive_callback(callback)
SetReceiveCallback ==
    /\ ~api.receiver_callback
    /\ api' = [api EXCEPT !.receiver_callback = TRUE]
    /\ conn' = << >>
    /\ last_op' = Op("set_receive_callback", 0)
    /\ UNCHANGED <<now, callback_log, calls, retransmit_task, peer>>

\* a caller enters send_packet(data, is_reliable=True): it reads the clock,
\* then either finds the window full and suspends in the wait loop, or
\* assigns the seqno and dispatches
SendReliable(c) ==
    /\ calls[c].pc = "idle"
    /\ now <= MaxSendTime
    /\ api.next_seqno + Waiting <= MaxSeq
    /\ last_op' = Op("send_reliable", c)
    /\ IF WindowFull(api)
       THEN /\ calls' = [calls EXCEPT ![c] =
                  [pc |-> "waiting", full_timestamp |-> now, is_reliable |-> TRUE]]
            /\ conn' = << >>
            /\ UNCHANGED <<api, callback_log>>
       ELSE /\ Apply(send_packet_dispatch(Here, now, SendPayload, TRUE))
            /\ UNCHANGED calls
    /\ UNCHANGED <<now, retransmit_task, peer>>

\* a suspended send_packet wakes from asyncio.sleep(0.05), finds room in the
\* window and dispatches (when the window is still full it sleeps again)
SendResume(c) ==
    /\ calls[c].pc = "waiting"
    /\ ~WindowFull(api)
    /\ Apply(send_packet_dispatch(Here, calls[c].full_timestamp, SendPayload, TRUE))
    /\ calls' = [calls EXCEPT ![c] = IdleCall]
    /\ last_op' = Op("send_resume", c)
    /\ UNCHANGED <<now, retransmit_task, peer>>

\* a cancellation that arrives after the suspended send took its seqno
SendCancel_seqno_taken(c) ==
    /\ calls[c].pc = "waiting"
    /\ calls' = [calls EXCEPT ![c] = IdleCall]
    /\ api' = [api EXCEPT !.next_seqno = @ + 1]
    /\ conn' = << >>
    /\ last_op' = Op("send_cancel", c)
    /\ UNCHANGED <<now, callback_log, retransmit_task, peer>>

\* the caller cancels a send_packet suspended in the wait loop
SendCancel(c) ==
    /\ calls[c].pc = "waiting"
    /\ calls' = [calls EXCEPT ![c] = IdleCall]
    /\ conn' = << >>
    /\ last_op' = Op("send_cancel", c)
    /\ UNCHANGED <<api, now, callback_log, retransmit_task, peer>>

\* send_packet(data, is_reliable=False)
SendUnreliable(c) ==
    /\ calls[c].pc = "idle"
    /\ api.unreliable_seqno < MaxUnreliable
    /\ Apply(send_packet_dispatch(Here, now, SendPayload, FALSE))
    /\ last_op' = Op("send_unreliable", c)
    /\ UNCHANGED <<now, calls, retransmit_task, peer>>

\* a payload one byte longer than the payload_len field ("H") can state
OversizePayload == [i \in 1..(65535 + 1) |-> 65]

\* send_packet(data, is_reliable=True) with a payload of 65536 bytes, called
\* while the window has room: the seqno is assigned, then struct.pack raises
SendOversize(c) ==
    /\ calls[c].pc = "idle"
    /\ now <= MaxSendTime
    /\ api.next_seqno + Waiting <= MaxSeq
    /\ ~WindowFull(api)
    /\ Apply(send_packet_dispatch(Here, now, OversizePayload, TRUE))
    /\ last_op' = Op("send_oversize", c)
    /\ UNCHANGED <<now, calls, retransmit_task, peer>>

\* asyncio.create_task(api.start_retransmit_loop()): the task sleeps 0.1 s
StartRetransmitLoop ==
    /\ retransmit_task.state = "none"
    /\ retransmit_task' = [state |-> "sleeping", wake |-> now + sweep_period]
    /\ conn' = << >>
    /\ last_op' = Op("start_retransmit_loop", 0)
    /\ UNCHANGED <<api, now, callback_log, calls, peer>>

\* the retransmit task wakes and runs check_retransmissions; an exception
\* leaves the while-True loop and ends the task
Sweep ==
    /\ SweepDue
    /\ LET w == check_retransmissions(Here, now)
       IN  /\ Apply(w)
           /\ retransmit_task' =
                IF w.exc = "none"
                THEN [state |-> "sleeping", wake |-> now + sweep_period]
                ELSE [state |-> "failed", wake |-> 0]
    /\ last_op' = Op("sweep", 0)
    /\ UNCHANGED <<now, calls, peer>>

\* a stream read holding exactly the ACK frame with value a
RecvAck(a) ==
    /\ Apply(process_received_data(Here, PeerAckFrame(a), TRUE, now))
    /\ last_op' = Op("recv_ack", a)
    /\ UNCHANGED <<now, calls, retransmit_task, peer>>

\* a stream read holding exactly the reliable data frame with seqno s
RecvReliable(s) ==
    /\ Apply(process_received_data(Here, PeerReliableFrame(s), TRUE, now))
    /\ last_op' = Op("recv_reliable", s)
    /\ UNCHANGED <<now, calls, retransmit_task, peer>>

\* a datagram holding the unreliable data frame with seqno s
RecvUnreliable(s) ==
    /\ api.metrics.total_recv_unreliable < MaxUnreliable
    /\ Apply(process_received_data(Here, PeerUnreliableFrame(s), FALSE, now))
    /\ last_op' = Op("recv_unreliable", s)
    /\ UNCHANGED <<now, calls, retransmit_task, peer>>

\* a datagram from a network that neither reorders nor duplicates: its seqno
\* is above every unreliable seqno that arrived before
RecvUnreliableInOrder(s) ==
    /\ s > api.metrics.max_seen_unreliable_seqno
    /\ RecvUnreliable(s)

\* the peer writes an ACK frame with value a on stream 0
PeerWriteAck(a) ==
    /\ Len(peer_written) < MaxStreamFrames
    /\ peer_stream' = peer_stream \o PeerAckFrame(a)
    /\ peer_written' = Append(peer_written, PeerAckFrame(a))
    /\ conn' = << >>
    /\ last_op' = Op("peer_write_ack", a)
    /\ UNCHANGED <<api, now, callback_log, calls, retransmit_task, peer_world, stream_buffers>>

\* the payloads the peer's application sends: empty, ASCII, and byte strings
\* holding 0xFF, which is valid nowhere in UTF-8
RoundTripPayloads == { << >>, <<65>>, <<72, 105>>, <<255>>, <<65, 255, 66>> }

\* the peer's engine before its (n+1)-th reliable send, its earlier sends
\* having been acknowledged
PeerEngine(n) ==
    World([ApiInit EXCEPT !.next_seqno = n + 1, !.base = n + 1], << >>)

\* the peer calls send_packet(payload, is_reliable=True); the frame its
\* engine dispatches on stream 0 arrives in order
PeerSendData(payload) ==
    /\ Len(peer_written) < MaxRoundTrip
    /\ LET w == send_packet_dispatch(PeerEngine(Len(peer_written)), now,
                                     payload, TRUE)
       IN  /\ peer_written' = Append(peer_written, w.conn[1].data)
           /\ peer_stream' = peer_stream \o w.conn[1].data
    /\ conn' = << >>
    /\ last_op' = Op("peer_send_data", Len(payload))
    /\ UNCHANGED <<api, now, callback_log, calls, retransmit_task, peer_world, stream_buffers>>

\* a StreamDataReceived event carrying the next k bytes of stream 0:
\* GameNetProtocol.quic_event_received hands event.data to
\* process_received_data
StreamRead(k) ==
    /\ k \in 1..Len(peer_stream)
    /\ Apply(process_received_data(Here, SubSeq(peer_stream, 1, k), TRUE, now))
    /\ peer_stream' = SubSeq(peer_stream, k + 1, Len(peer_stream))
    /\ last_op' = Op("stream_read", k)
    /\ UNCHANGED <<now, calls, retransmit_task, peer_written, peer_world, stream_buffers>>

\* the length of the frame at the head of the peer's stream
HeadFrameLen ==
    HeaderLen + Unpack(SubSeq(peer_stream, 1, HeaderLen)).payload_len

\* a stream read that carries exactly the next frame of the stream
ReadFrame ==
    /\ Len(peer_stream) >= HeaderLen
    /\ StreamRead(HeadFrameLen)

\* the bytes the last operation of an engine put on stream 0
StreamBytes(c) ==
    LET r == SelectSeq(c, LAMBDA f : f.kind = "stream")
    IN  Concat([i \in 1..Len(r) |-> r[i].data])

\* a lossless in-order link carries what the engine just put on stream 0 to
\* the peer, whose GameNetProtocol hands it to process_received_data; the
\* ACK frames the peer's engine answers with go on stream 0 towards the engine
PeerReceive ==
    /\ conn # << >>
    /\ LET w == process_received_data([peer_world EXCEPT !.conn = << >>],
                                      StreamBytes(conn), TRUE, now)
       IN  /\ peer_world' = w
           /\ peer_stream' = peer_stream \o StreamBytes(w.conn)
           /\ peer_written' =
                peer_written \o [i \in 1..Len(w.conn) |-> w.conn[i].data]
    /\ conn' = << >>
    /\ last_op' = Op("peer_receive", 0)
    /\ UNCHANGED <<api, now, callback_log, calls, retransmit_task, stream_buffers>>

\* GameNetClientProtocol.quic_event_received for a StreamDataReceived event
\* on stream 0: the data joins stream_buffers[0]; only an event with
\* end_stream set pops the buffer and hands it to process_received_data
client_stream_data_received(buf, w, data, end_stream, t) ==
    IF end_stream
    THEN [buf |-> << >>, w |-> process_received_data(w, buf \o data, TRUE, t)]
    ELSE [buf |-> buf \o data, w |-> w]

\* the sender endpoint built by create_sender gets a StreamDataReceived event
\* with the next frame of stream 0.  The peer's engine writes every frame
\* with end_stream=False.
ClientStreamData ==
    /\ conn = << >>
    /\ Len(peer_stream) >= HeaderLen
    /\ LET r == client_stream_data_received(
                    stream_buffers, Here,
                    SubSeq(peer_stream, 1, HeadFrameLen), FALSE, now)
       IN  /\ stream_buffers' = r.buf
           /\ Apply(r.w)
    /\ peer_stream' = SubSeq(peer_stream, HeadFrameLen + 1, Len(peer_stream))
    /\ last_op' = Op("client_stream_data", 0)
    /\ UNCHANGED <<now, calls, retransmit_task, peer_written, peer_world>>

\* the operations of the engine on a link that carries every frame to the
\* peer before the engine's next operation
LinkSend(c) == conn = << >> /\ SendReliable(c)
LinkResume(c) == conn = << >> /\ SendResume(c)
LinkReadFrame == conn = << >> /\ ReadFrame
LinkTick == conn = << >> /\ Tick

\* the seqnos whose every copy the link of scenario S3 loses
S3Lost == {3}

\* the frames of an operation's output that the link of scenario S3 carries
S3Carried(c) ==
    SelectSeq(c, LAMBDA f : ~(/\ Unpack(f.data).channel_type = 0
                              /\ Unpack(f.data).seqno \in S3Lost))

\* PeerReceive on the link of scenario S3: every copy of a lost seqno is
\* dropped, every other frame reaches the peer's engine in order
S3PeerReceive ==
    /\ conn # << >>
    /\ LET w == process_received_data([peer_world EXCEPT !.conn = << >>],
                                      StreamBytes(S3Carried(conn)), TRUE, now)
       IN  /\ peer_world' = w
           /\ peer_stream' = peer_stream \o StreamBytes(w.conn)
           /\ peer_written' =
                peer_written \o [i \in 1..Len(w.conn) |-> w.conn[i].data]
    /\ conn' = << >>
    /\ last_op' = Op("peer_receive", 0)
    /\ UNCHANGED <<api, now, callback_log, calls, retransmit_task, stream_buffers>>

\* the application of scenario S3 sends the seqnos 1..5
S3Send == api.next_seqno <= 5 /\ LinkSend(1)

\* on the link of scenario S3 an ACK the peer wrote is read by the engine
\* before its retransmit task runs again and before the clock moves on
S3Sweep == conn = << >> /\ peer_stream = << >> /\ Sweep
S3Tick == peer_stream = << >> /\ LinkTick

\* the reliable frame with seqno s of the engine's application reaches the
\* peer's engine, for the first time, on a network that reorders frames; the
\* ACK the peer's engine answers with goes on stream 0
ReorderedArrival(s) ==
    /\ s \notin peer_world.api.packet_arrival_times
    /\ LET w == process_received_data(
                    [peer_world EXCEPT !.conn = << >>],
                    DataFrame(0, s, TimestampMs(0), SendPayload), TRUE, now)
       IN  /\ peer_world' = w
           /\ peer_stream' = peer_stream \o StreamBytes(w.conn)
           /\ peer_written' =
                peer_written \o [i \in 1..Len(w.conn) |-> w.conn[i].data]
    /\ conn' = << >>
    /\ last_op' = Op("peer_arrival", s)
    /\ UNCHANGED <<api, now, callback_log, calls, retransmit_task, stream_buffers>>

\* the clock while no skip timer can have expired: a timer started at time 0
\* or later has time_missing <= retransmit_timeout up to this time
EarlyTick == now < retransmit_timeout /\ Tick

\* the number of frames the peer wrote that are still unread, while every
\* read so far ended at a frame boundary
Unread ==
    CHOOSE r \in 0..Len(peer_written) :
        Len(Concat(SubSeq(peer_written, Len(peer_written) - r + 1,
                          Len(peer_written)))) = Len(peer_stream)

\* the next n unread frames of the stream
NextFrames(n) ==
    SubSeq(peer_written, Len(peer_written) - Unread + 1,
           Len(peer_written) - Unread + n)

\* a StreamDataReceived event whose data is the next n frames of the stream,
\* coalesced by the transport into one read
CoalescedRead(n) ==
    /\ n \in 1..Unread
    /\ StreamRead(Len(Concat(NextFrames(n))))

\* the ACK values and the payloads of the frames the peer writes in the
\* coalescing scenario
CoalesceAcks == {3, 5, 7}
CoalescePayloads == { <<65>>, <<72, 105>> }

\* a reliable frame reaches the peer's engine: a first arrival, a duplicate
\* or a frame that comes after its seqno was skipped
PeerArrival(s) ==
    /\ Len(peer_written) < MaxPeerAcks
    /\ LET w == process_received_data(
                    [peer_world EXCEPT !.conn = << >>],
                    DataFrame(0, s, TimestampMs(0), SendPayload), TRUE, now)
       IN  /\ peer_world' = w
           /\ peer_stream' = peer_stream \o StreamBytes(w.conn)
           /\ peer_written' =
                peer_written \o [i \in 1..Len(w.conn) |-> w.conn[i].data]
    /\ conn' = << >>
    /\ last_op' = Op("peer_arrival", s)
    /\ UNCHANGED <<api, now, callback_log, calls, retransmit_task, stream_buffers>>

\* A Python integer, which has no width, kept as <<h, l>> for h * 2^16 + l
\* with l in 0..2^16-1, so that millisecond clocks beyond 2^32 are exact
Wide(h, l) == <<h + (l \div Pow2(16)), l % Pow2(16)>>

\* abs(x - y) on such integers
WideAbsDiff(x, y) ==
    LET d == Wide(x[1] - y[1], x[2] - y[2])
    IN  IF d[1] < 0 THEN Wide(0 - d[1], 0 - d[2]) ELSE d

\* x < y on such integers
WideLess(x, y) == x[1] < y[1] \/ (x[1] = y[1] /\ x[2] < y[2])

\* int(full_timestamp * 1000) & 0xFFFFFFFF, the timestamp field of a frame
truncate_timestamp(t_ms) == <<t_ms[1] % Pow2(16), t_ms[2]>>

\* _reconstruct_timestamp with the neighbouring epochs left out
reconstruct_timestamp_same_epoch(truncated_timestamp_ms, current_time_ms) ==
    LET base == <<current_time_ms[1] - (current_time_ms[1] % Pow2(16)), 0>>
    IN  Wide(base[1] + truncated_timestamp_ms[1], truncated_timestamp_ms[2])

\* _reconstruct_timestamp(truncated_timestamp_ms) when the receiver's clock
\* reads current_time_ms; the result is best_candidate, in milliseconds, which
\* the code hands out divided by 1000.0.  base has its lower 32 bits clear, so
\* base | truncated_timestamp_ms is their sum; min() returns the first of the
\* candidates that no other one beats.
reconstruct_timestamp(truncated_timestamp_ms, current_time_ms) ==
    LET base == <<current_time_ms[1] - (current_time_ms[1] % Pow2(16)), 0>>
        candidate1 == Wide(base[1] + truncated_timestamp_ms[1],
                           truncated_timestamp_ms[2])
        candidate2 == Wide(base[1] - Pow2(16) + truncated_timestamp_ms[1],
                           truncated_timestamp_ms[2])
        candidate3 == Wide(base[1] + Pow2(16) + truncated_timestamp_ms[1],
                           truncated_timestamp_ms[2])
        candidates == <<candidate1, candidate2, candidate3>>
        key(i) == WideAbsDiff(candidates[i], current_time_ms)
        best == CHOOSE i \in 1..3 :
                    /\ \A j \in 1..3 : ~WideLess(key(j), key(i))
                    /\ \A j \in 1..(i - 1) : WideLess(key(i), key(j))
    IN  candidates[best]

\* receiver clocks in milliseconds: at the start, in the middle and at the end
\* of an epoch of 2^32 ms, in the first epochs and in the one of the year 2023
ClockSamples ==
    { Wide(e * Pow2(16) + h, l) :
        e \in {0, 1, 396},
        h \in {0, Pow2(15) - 1, Pow2(15), Pow2(16) - 1},
        l \in {0, Pow2(16) - 1} }

\* sender clock minus receiver clock, in milliseconds: none, one millisecond,
\* just inside 2^31 and exactly 2^31, either way
SkewSamples ==
    { <<0, 0>>, <<0, 1>>, Wide(0, 0 - 1),
      <<Pow2(15) - 1, Pow2(16) - 1>>, Wide(1 - Pow2(15), 0 - (Pow2(16) - 1)),
      <<Pow2(15), 0>>, <<0 - Pow2(15), 0>> }

\* a frame stamped t_ms by its sender is about to be read at current_time_ms
InitClock ==
    /\ api = ApiInit
    /\ now = 0
    /\ callback_log = << >>
    /\ conn = << >>
    /\ calls = [c \in Callers |-> IdleCall]
    /\ retransmit_task = [state |-> "none", wake |-> 0]
    /\ peer_stream = << >>
    /\ peer_written = << >>
    /\ peer_world = PeerInit
    /\ stream_buffers = << >>
    /\ \E current_time_ms \in ClockSamples, d \in SkewSamples :
         last_op = Op("clock",
                      [current_time_ms |-> current_time_ms,
                       t_ms |-> Wide(current_time_ms[1] + d[1],
                                     current_time_ms[2] + d[2])])

\* the receiver reconstructs the sender's timestamp from the wire value
ReconstructTimestamp ==
    /\ last_op.op = "clock"
    /\ last_op' =
         Op("reconstruct_timestamp",
            [current_time_ms |-> last_op.arg.current_time_ms,
             t_ms |-> last_op.arg.t_ms,
             best_candidate |->
                 reconstruct_timestamp(truncate_timestamp(last_op.arg.t_ms),
                                       last_op.arg.current_time_ms)])
    /\ UNCHANGED <<api, now, callback_log, conn, calls, retransmit_task, peer>>

\* the flag bytes with the ACK bit set: channel bit clear or set
AckFlags == {2, 3}

\* a frame with the ACK bit set reaches the engine, with either channel bit,
\* with or without a payload, on the stream or in a datagram
RecvAckFlagged(flag, a, payload, is_reliable) ==
    /\ Apply(process_received_data(
                 Here, Pack(flag, a, TimestampMs(0), Len(payload)) \o payload,
                 is_reliable, now))
    /\ last_op' = Op("recv_ack_flagged",
                     [flag |-> flag, seqno |-> a, payload_len |-> Len(payload),
                      is_reliable |-> is_reliable])
    /\ UNCHANGED <<now, calls, retransmit_task, peer>>

----------------------------------------------------------------------------
(* Specifications *)

SenderNext ==
    \/ Tick
    \/ StartRetransmitLoop
    \/ Sweep
    \/ \E c \in Callers : SendReliable(c)
    \/ \E c \in Callers : SendResume(c)
    \/ \E c \in Callers : SendCancel(c)
    \/ \E a \in 0..MaxAck : RecvAck(a)

\* the sender half: sends, ACK frames, the retransmit task, the clock
SpecSender == Init /\ [][SenderNext]_vars

\* the ACK values the wire scenario lets arrive
WireAcks == {3}

WireNext ==
    \/ Tick
    \/ StartRetransmitLoop
    \/ Sweep
    \/ SendReliable(1)
    \/ SendResume(1)
    \/ SendCancel(1)
    \/ SendOversize(1)
    \/ \E a \in WireAcks : RecvAck(a)

\* what the sender puts on the wire: one caller whose sends succeed, wait,
\* are cancelled or fail in struct.pack, the retransmit task, a few ACKs
SpecWire == Init /\ [][WireNext]_vars

\* the engine of a connection whose retransmit task was started with it
InitRunning ==
    /\ api = ApiInit
    /\ now = 0
    /\ callback_log = << >>
    /\ conn = << >>
    /\ calls = [c \in Callers |-> IdleCall]
    /\ retransmit_task = [state |-> "sleeping", wake |-> sweep_period]
    /\ peer_stream = << >>
    /\ peer_written = << >>
    /\ peer_world = PeerInit
    /\ stream_buffers = << >>
    /\ last_op = Op("init", 0)

\* the cumulative ACK values the peer sends once it stops holding them back
HeldAcks == {3, 5}

RunningNext ==
    \/ Tick
    \/ Sweep
    \/ \E c \in Callers : SendReliable(c)
    \/ \E c \in Callers : SendResume(c)
    \/ \E a \in HeldAcks : RecvAck(a)

\* the sender under a running retransmit task, the peer's ACKs being held
\* back for any length of time
SpecRunning == InitRunning /\ [][RunningNext]_vars

\* the reliable seqnos that arrive in the datagram scenario
DatagramRecvSeqs == {1, 2}

DatagramNext ==
    \/ SetReceiveCallback
    \/ SendReliable(1)
    \/ \E s \in 1..MaxUnreliable : RecvUnreliable(s)
    \/ \E s \in DatagramRecvSeqs : RecvReliable(s)

\* unreliable frames arriving next to reliable traffic: datagrams arrive in
\* any order, with losses and duplicates
SpecDatagram == Init /\ [][DatagramNext]_vars

InOrderNext ==
    \/ SetReceiveCallback
    \/ \E s \in 1..(MaxUnreliable + 1) : RecvUnreliableInOrder(s)
    \/ \E s \in DatagramRecvSeqs : RecvReliable(s)

\* datagrams lost but neither reordered nor duplicated by the network, next
\* to reliable frames arriving in any order
SpecInOrder == Init /\ [][InOrderNext]_vars

\* the receiving engine of the round trip, its callback set
InitRoundTrip ==
    /\ api = [ApiInit EXCEPT !.receiver_callback = TRUE]
    /\ now = 0
    /\ callback_log = << >>
    /\ conn = << >>
    /\ calls = [c \in Callers |-> IdleCall]
    /\ retransmit_task = [state |-> "none", wake |-> 0]
    /\ peer_stream = << >>
    /\ peer_written = << >>
    /\ peer_world = PeerInit
    /\ stream_buffers = << >>
    /\ last_op = Op("init", 0)

RoundTripNext ==
    \/ \E payload \in RoundTripPayloads : PeerSendData(payload)
    \/ ReadFrame

\* frames from a peer engine's send_packet through a lossless in-order
\* stream into process_received_data
SpecRoundTrip == InitRoundTrip /\ [][RoundTripNext]_vars

LosslessNext ==
    \/ \E c \in Callers : LinkSend(c)
    \/ \E c \in Callers : LinkResume(c)
    \/ PeerReceive
    \/ LinkReadFrame
    \/ LinkTick

\* scenario S1: two engines on a lossless in-order link, the ACKs taking any
\* time to come back; the retransmit task is not started
SpecLossless == Init /\ [][LosslessNext]_vars

ClientNext ==
    \/ \E c \in Callers : LinkSend(c)
    \/ PeerReceive
    \/ ClientStreamData
    \/ LinkTick

\* the sender endpoint of create_sender (GameNetClientProtocol) on a lossless
\* in-order link to a peer engine
SpecClient == Init /\ [][ClientNext]_vars

UnreliableSendNext ==
    \/ Tick
    \/ Sweep
    \/ SendReliable(1)
    \/ SendUnreliable(1)

\* unreliable sends next to reliable sends under a running retransmit task
SpecUnreliableSend == InitRunning /\ [][UnreliableSendNext]_vars

ReceiverNext ==
    \/ Tick
    \/ SetReceiveCallback
    \/ \E s \in 1..MaxRecvSeq : RecvReliable(s)

\* the receiver half: reliable data frames in any order, the clock
SpecReceiver == Init /\ [][ReceiverNext]_vars

\* the engine after n reliable sends at time t
RECURSIVE AfterSends(_, _, _)
AfterSends(w, n, t) ==
    IF n = 0 THEN w
    ELSE AfterSends(send_packet_dispatch(w, t, SendPayload, TRUE), n - 1, t)

\* the sender has filled its window; the peer's ACK frames arrive on the
\* stream, which hands them over in reads of any size
InitStream ==
    /\ api = AfterSends(World(ApiInit, << >>), window_size, 0).api
    /\ now = 0
    /\ callback_log = << >>
    /\ conn = << >>
    /\ calls = [c \in Callers |-> IdleCall]
    /\ retransmit_task = [state |-> "none", wake |-> 0]
    /\ peer_stream = << >>
    /\ peer_written = << >>
    /\ peer_world = PeerInit
    /\ stream_buffers = << >>
    /\ last_op = Op("init", 0)

StreamNext ==
    \/ \E a \in 1..window_size : PeerWriteAck(a)
    \/ \E k \in 1..(MaxStreamFrames * HeaderLen) : StreamRead(k)

SpecStream == InitStream /\ [][StreamNext]_vars

\* the arrival orders of scenario S3: the peer's frames 1, 2, 4, 5 in any
\* order, seqno 3 being lost for good
S3Orders ==
    { o \in [1..4 -> {1, 2, 4, 5}] : \A i, j \in 1..4 : i # j => o[i] # o[j] }

InitS3 ==
    /\ api = [ApiInit EXCEPT !.receiver_callback = TRUE]
    /\ now = 0
    /\ callback_log = << >>
    /\ conn = << >>
    /\ calls = [c \in Callers |-> IdleCall]
    /\ retransmit_task = [state |-> "none", wake |-> 0]
    /\ \E o \in S3Orders :
           /\ peer_written = [i \in 1..4 |-> PeerReliableFrame(o[i])]
           /\ peer_stream = Concat(peer_written)
    /\ peer_world = PeerInit
    /\ stream_buffers = << >>
    /\ last_op = Op("init", 0)

S3Next ==
    \/ Tick
    \/ ReadFrame

\* the effect of ReadFrame on the stream alone: the frame at its head is
\* consumed.  Among the steps of S3Next these are exactly the ReadFrame steps.
ReadFrameStep ==
    /\ Len(peer_stream) >= HeaderLen
    /\ peer_stream' = SubSeq(peer_stream, HeadFrameLen + 1, Len(peer_stream))

\* scenario S3 with the scheduling the event loop gives: the clock runs and
\* every frame that arrived is handed to the engine (quic_event_received is
\* called for every StreamDataReceived event)
SpecS3Live ==
    InitS3 /\ [][S3Next]_vars /\ WF_vars(Tick) /\ WF_peer_stream(ReadFrameStep)

\* the fresh engine, or the engine whose window was filled at time 0, with
\* a further send suspended on it, before the one ACK it ever got (value 1);
\* in both the retransmit task was started with the connection
InitNoAck ==
    /\ \/ /\ api = ApiInit
          /\ calls = [c \in Callers |-> IdleCall]
       \/ /\ api = process_ack(AfterSends(World(ApiInit, << >>), window_size, 0),
                               1, 0).api
          /\ calls = [c \in Callers |->
                        IF c = 1 THEN [pc |-> "waiting", full_timestamp |-> 0,
                                       is_reliable |-> TRUE]
                        ELSE IdleCall]
    /\ now = 0
    /\ callback_log = << >>
    /\ conn = << >>
    /\ retransmit_task = [state |-> "sleeping", wake |-> sweep_period]
    /\ peer_stream = << >>
    /\ peer_written = << >>
    /\ peer_world = PeerInit
    /\ stream_buffers = << >>
    /\ last_op = Op("init", 0)

NoAckNext ==
    \/ Tick
    \/ Sweep
    \/ \E c \in Callers : SendReliable(c)
    \/ \E c \in Callers : SendResume(c)

\* a sender to which no ACK arrives (any more), with the scheduling the event loop gives: the
\* clock runs, the retransmit task runs when it is ready, a suspended send
\* wakes from its sleep
SpecNoAckLive ==
    /\ InitNoAck /\ [][NoAckNext]_vars
    /\ WF_vars(Tick) /\ WF_vars(Sweep)
    /\ \A c \in Callers : WF_vars(SendResume(c))

S3SenderNext ==
    \/ S3Send
    \/ S3PeerReceive
    \/ LinkReadFrame
    \/ S3Sweep
    \/ S3Tick

\* scenario S3 seen from the sender: its retransmit task runs, the link
\* loses every copy of seqno 3 and carries everything else without delay
SpecS3Sender == InitRunning /\ [][S3SenderNext]_vars

ReorderNext ==
    \/ \E s \in 1..MaxRecvSeq : ReorderedArrival(s)
    \/ EarlyTick

\* the reliable frames 1..MaxRecvSeq reach the peer's engine once each, in
\* any order, all before a skip timeout can expire
SpecReorder == Init /\ [][ReorderNext]_vars

CoalesceNext ==
    \/ \E a \in CoalesceAcks : PeerWriteAck(a)
    \/ \E payload \in CoalescePayloads : PeerSendData(payload)
    \/ \E n \in 1..MaxRoundTrip : CoalescedRead(n)

\* the sender has filled its window; the peer writes ACK frames and data
\* frames on the stream, and the transport hands them over in reads that
\* hold one or several whole frames
SpecCoalesce == InitStream /\ [][CoalesceNext]_vars

\* the window was filled at time 0 and every caller has a further send
\* suspended in the wait loop
InitWaiters ==
    /\ api = AfterSends(World(ApiInit, << >>), window_size, 0).api
    /\ now = 0
    /\ callback_log = << >>
    /\ conn = << >>
    /\ calls = [c \in Callers |->
                  [pc |-> "waiting", full_timestamp |-> 0, is_reliable |-> TRUE]]
    /\ retransmit_task = [state |-> "none", wake |-> 0]
    /\ peer_stream = << >>
    /\ peer_written = << >>
    /\ peer_world = PeerInit
    /\ stream_buffers = << >>
    /\ last_op = Op("init", 0)

WaitersNext ==
    \/ Tick
    \/ \E c \in Callers : SendResume(c)
    \/ \E c \in Callers : SendCancel(c)
    \/ \E a \in 1..window_size : RecvAck(a)

\* several sends suspended on a full window at once; the ACKs of the frames
\* in flight arrive in any order and at any time
SpecWaiters == InitWaiters /\ [][WaitersNext]_vars

PeerLossNext ==
    \/ \E s \in 1..MaxRecvSeq : PeerArrival(s)
    \/ Tick

\* the peer's receiver half under loss, reordering and duplication: reliable
\* frames reach it in any order, any number of times, while the clock runs
SpecPeerLoss == Init /\ [][PeerLossNext]_vars

\* timestamp reconstruction as a function of the two clocks
SpecClock == InitClock /\ [][ReconstructTimestamp]_vars

AckFramesNext ==
    \/ SetReceiveCallback
    \/ SendReliable(1)
    \/ \E s \in 1..2 : RecvReliable(s)
    \/ \E flag \in AckFlags, a \in HeldAcks, payload \in {<< >>, SendPayload},
          is_reliable \in BOOLEAN :
         RecvAckFlagged(flag, a, payload, is_reliable)

\* an engine that sends and receives reliable data while frames with the ACK
\* bit set reach it on either transport
SpecAckFrames == Init /\ [][AckFramesNext]_vars

BothHalvesNext ==
    \/ Tick
    \/ Sweep
    \/ api.next_seqno <= 3 /\ SendReliable(1)
    \/ api.unreliable_seqno < 1 /\ SendUnreliable(1)
    \/ \E a \in WireAcks : RecvAck(a)
    \/ \E s \in 1..3 : s \notin api.packet_arrival_times /\ RecvReliable(s)
    \/ api.metrics.total_recv_unreliable < 1 /\ RecvUnreliable(1)

\* one engine with both halves at work under a running retransmit task: one
\* caller sending a few packets on both channels while data frames, each
\* once, and ACKs come in
SpecBothHalves == InitRunning /\ [][BothHalvesNext]_vars

Next ==
    \/ Tick
    \/ SetReceiveCallback
    \/ StartRetransmitLoop
    \/ Sweep
    \/ \E c \in Callers : SendReliable(c)
    \/ \E c \in Callers : SendResume(c)
    \/ \E c \in Callers : SendCancel(c)
    \/ \E c \in Callers : SendUnreliable(c)
    \/ \E c \in Callers : SendOversize(c)
    \/ \E a \in 0..MaxAck : RecvAck(a)
    \/ \E s \in 1..MaxRecvSeq : RecvReliable(s)
    \/ \E s \in 1..MaxUnreliable : RecvUnreliable(s)

\* one engine with both halves at work
Spec == Init /\ [][Next]_vars

----------------------------------------------------------------------------
(* Claims about the receiver half *)

\* the seqnos handed to the receive callback on the reliable channel, in order
ReliableDelivered ==
    LET r == SelectSeq(callback_log, LAMBDA e : e[2] = 0)
    IN  [i \in 1..Len(r) |-> r[i][1]]

\* C1: whatever reliable frames arrive (any order, losses, duplicates, late
\* arrivals), the seqnos passed to the receive callback on the reliable
\* channel are strictly increasing: none twice, none after a larger one.
C1_DeliveryStrictlyIncreasing ==
    \A i, j \in 1..Len(ReliableDelivered) :
        i < j => ReliableDelivered[i] < ReliableDelivered[j]

\* C1 witness: a seqno was skipped, later ones were delivered, and the frame
\* just processed carried a seqno below the last delivered one
C1_Witness ==
    /\ Len(ReliableDelivered) >= 2
    /\ \E i \in 1..(Len(ReliableDelivered) - 1) :
           ReliableDelivered[i + 1] > ReliableDelivered[i] + 1
    /\ last_op.op = "recv_reliable"
    /\ last_op.arg < ReliableDelivered[Len(ReliableDelivered)]

\* the ACK frames the last operation put on stream 0
AcksEmitted ==
    SelectSeq(conn, LAMBDA f : f.kind = "stream" /\ Len(f.data) = HeaderLen
                               /\ Unpack(f.data).channel_type = 2)

\* C6: after every reliable data frame processed (in order, out of order or
\* duplicate) exactly one ACK frame is emitted on stream 0, with seqno field
\* next_expected - 1 as it stands after delivery, when that value is
\* positive; when it is 0 nothing is emitted.
C6_OneCumulativeAckPerFrame ==
    last_op.op = "recv_reliable" =>
        LET ack_seqno == api.next_expected_reliable_seqno - 1
        IN  IF ack_seqno > 0
            THEN /\ Len(conn) = 1
                 /\ AcksEmitted = conn
                 /\ Unpack(conn[1].data).seqno = ack_seqno
                 /\ Unpack(conn[1].data).payload_len = 0
            ELSE conn = << >>

\* C6 witness: an out-of-order frame (its seqno above the cumulative value)
\* was processed and a duplicate ACK for the cursor went out
C6_Witness ==
    /\ last_op.op = "recv_reliable"
    /\ Len(conn) = 1
    /\ Unpack(conn[1].data).seqno = 2
    /\ last_op.arg = 4
    /\ 4 \in DOMAIN api.reliable_buffer

\* C6 witness for the silent case: the first frame to arrive is not seqno 1
C6_WitnessNoAck ==
    /\ last_op.op = "recv_reliable"
    /\ api.next_expected_reliable_seqno = 1
    /\ conn = << >>

\* the frame with seqno s repeats one the engine has delivered, skipped or
\* still holds in the reorder buffer
IsDuplicate(a, s) ==
    \/ s < a.next_expected_reliable_seqno
    \/ s \in DOMAIN a.reliable_buffer

\* C10: receiving a reliable frame whose seqno was already delivered, already
\* skipped or is already buffered triggers no callback and leaves
\* next_expected and the reorder buffer as they were.
C10_DuplicateIsIdempotent ==
    [][ (last_op'.op = "recv_reliable" /\ IsDuplicate(api, last_op'.arg)) =>
          /\ callback_log' = callback_log
          /\ api'.next_expected_reliable_seqno = api.next_expected_reliable_seqno
          /\ api'.reliable_buffer = api.reliable_buffer ]_vars

----------------------------------------------------------------------------
(* Claims about the sender half *)

\* C2: in every reachable state of the sender, after any interleaving of
\* reliable sends, ACK processing (any ACK value) and retransmit sweeps,
\* base <= next_seqno <= base + window_size.
C2_WindowInvariant ==
    /\ api.base <= api.next_seqno
    /\ api.next_seqno <= api.base + window_size

\* the in-flight seqnos a sweep at time t finds past the give-up threshold
ExpiredSeqnos(a, t) ==
    { s \in DOMAIN a.pending_acks :
        /\ s \in a.base..(a.next_seqno - 1)
        /\ s \notin a.acked_packets
        /\ t - a.pending_acks[s].first_sent > retransmit_timeout }

\* C5: a retransmit give-up is handled in place and never raises: in the
\* sweep that finds a seqno with now - first_sent > give_up_threshold, the
\* in-flight record is removed, the seqno is marked resolved, base moves past
\* the run of resolved seqnos, and the retransmit task keeps sweeping.
C5_GiveUpHandledInPlace ==
    [][ (last_op'.op = "sweep" /\ ExpiredSeqnos(api, now) # {}) =>
          /\ retransmit_task'.state = "sleeping"
          /\ \A s \in ExpiredSeqnos(api, now) :
                 /\ s \notin DOMAIN api'.pending_acks
                 /\ s \in api'.acked_packets
          /\ api'.base \notin api'.acked_packets ]_vars

\* C7: processing a cumulative ACK with value a, base <= a < next_seqno,
\* removes every in-flight record with seqno in [base, a], marks those seqnos
\* resolved and sets base to a + 1; in-flight records with seqno > a are left
\* untouched.
C7_CumulativeAck ==
    [][ \A a \in 0..MaxAck :
          (last_op' = Op("recv_ack", a) /\ api.base <= a /\ a < api.next_seqno) =>
            /\ api'.base = a + 1
            /\ \A s \in api.base..a :
                   /\ s \notin DOMAIN api'.pending_acks
                   /\ s \in api'.acked_packets
            /\ \A s \in DOMAIN api.pending_acks :
                   s > a => /\ s \in DOMAIN api'.pending_acks
                            /\ api'.pending_acks[s] = api.pending_acks[s] ]_vars

\* C7 witness: ACK 3 was processed with seqnos 1..5 sent: three RTT samples
\* were taken, 1..3 are resolved, base is 4 and the records of 4 and 5 remain
C7_Witness ==
    /\ last_op = Op("recv_ack", 3)
    /\ api.base = 4
    /\ api.acked_packets = {1, 2, 3}
    /\ DOMAIN api.pending_acks = {4, 5}
    /\ api.metrics.rtt_records = 3

\* C8: an ACK frame whose value is >= next_seqno is silently dropped: base,
\* next_seqno, the in-flight set and the resolved set are unchanged.
C8_AckBeyondNextSeqnoDropped ==
    [][ (last_op'.op = "recv_ack" /\ last_op'.arg >= api.next_seqno) =>
          /\ api'.base = api.base
          /\ api'.next_seqno = api.next_seqno
          /\ api'.pending_acks = api.pending_acks
          /\ api'.acked_packets = api.acked_packets ]_vars

----------------------------------------------------------------------------
(* Claims about liveness and about the framer *)

\* C3: every reliable seqno up to the largest one received is eventually
\* delivered or skipped: when a seqno stays missing while later frames are
\* buffered (S3: 1, 2, 4, 5 arrive, 3 never does) the receiver eventually
\* skips it and delivers the frames behind it, so the delivery cursor passes
\* every seqno that was received.
C3_CursorDoesNotStall ==
    (api.packet_arrival_times # {}) ~>
        (\A s \in api.packet_arrival_times : api.next_expected_reliable_seqno > s)

\* C4: with no ACK ever arriving, a reliable send suspended on a full window
\* eventually completes, the sweep giving up on the oldest in-flight packets
\* and advancing base.  (Stated for the sends that find the window full at
\* time 0, whose give-up time lies within the clock of the model.)
C4_SuspendedSendCompletes ==
    \A c \in Callers :
        (calls[c].pc = "waiting" /\ now = 0) ~> (calls[c].pc = "idle")

\* the engine after the frames, each handed over in a read of its own
RECURSIVE FramesOneByOne(_, _, _)
FramesOneByOne(w, frames, t) ==
    IF frames = << >> THEN w
    ELSE FramesOneByOne(process_received_data(w, Head(frames), TRUE, t),
                        Tail(frames), t)

\* C9: a frame split across two consecutive stream reads is not lost: once
\* every byte the peer wrote has been read, the engine is in the state that
\* processing each frame exactly once, in order, leaves it in.
C9_SplitFrameNotLost ==
    peer_stream = << >> =>
        api = FramesOneByOne(
                AfterSends(World(ApiInit, << >>), window_size, 0),
                peer_written, now).api

----------------------------------------------------------------------------
(* Claims about what goes on the wire *)

\* the seqnos of the reliable data frames an operation put on stream 0
ReliableSeqnosOnWire(c) ==
    LET r == SelectSeq(c, LAMBDA f : f.kind = "stream"
                                     /\ Unpack(f.data).channel_type = 0)
    IN  [i \in 1..Len(r) |-> Unpack(r[i].data).seqno]

\* C11: the first transmissions of reliable frames carry the seqnos 1, 2, 3,
\* ... with no gap (the k-th frame that send_packet dispatches carries k,
\* total_sent_reliable counting the frames dispatched so far), and every
\* other reliable data frame on the wire repeats a seqno already
\* transmitted; also after a send call failed or was aborted.
C11_WireSeqnosNoGap ==
    [][ LET sent == ReliableSeqnosOnWire(conn')
        IN  IF last_op'.op \in {"send_reliable", "send_resume", "send_oversize"}
            THEN \A i \in 1..Len(sent) :
                     /\ Len(sent) = 1
                     /\ sent[i] = api.metrics.total_sent_reliable + 1
            ELSE \A i \in 1..Len(sent) :
                     sent[i] <= api.metrics.total_sent_reliable ]_vars

\* C12: when its ACK is withheld, a reliable packet is retransmitted at
\* least once (retransmit_count > 0) before the sender gives up on it, also a
\* packet whose send call had to wait for window space: the seqno on which
\* a sweep enters its give-up branch (the lowest in-flight seqno past the
\* give-up threshold) has been retransmitted.
C12_RetransmittedBeforeGiveUp ==
    [][ last_op'.op = "sweep" =>
          \A s \in ExpiredSeqnos(api, now) :
              (\A u \in ExpiredSeqnos(api, now) : s <= u) =>
                  api.pending_acks[s].retransmit_count > 0 ]_vars

----------------------------------------------------------------------------
(* Claims about the unreliable channel *)

\* C13: receiving an unreliable frame invokes the callback at once with that
\* frame and changes nothing on the reliable side: no ACK is emitted, nothing
\* is buffered, and next_expected, the reorder buffer, base, next_seqno and
\* the in-flight set are unchanged.
C13_UnreliableReceiveIsImmediate ==
    [][ \A s \in 1..MaxUnreliable :
          (last_op' = Op("recv_unreliable", s) /\ api.receiver_callback) =>
            /\ callback_log' =
                 Append(callback_log, <<s, 1, PeerPayload(s), TimestampMs(0)>>)
            /\ conn' = << >>
            /\ api'.next_expected_reliable_seqno = api.next_expected_reliable_seqno
            /\ api'.reliable_buffer = api.reliable_buffer
            /\ api'.missing_packet_timers = api.missing_packet_timers
            /\ api'.base = api.base
            /\ api'.next_seqno = api.next_seqno
            /\ api'.pending_acks = api.pending_acks
            /\ api'.acked_packets = api.acked_packets ]_vars

\* C13 witness: an unreliable frame was handed to the callback while a
\* reliable frame waits in the reorder buffer and a reliable send is in flight
C13_Witness ==
    /\ last_op = Op("recv_unreliable", 2)
    /\ callback_log # << >>
    /\ callback_log[Len(callback_log)] = <<2, 1, PeerPayload(2), TimestampMs(0)>>
    /\ DOMAIN api.reliable_buffer = {2}
    /\ DOMAIN api.pending_acks # {}

\* C14: an unreliable send never suspends on the window (it completes even
\* when next_seqno = base + window_size), takes its seqno from the unreliable
\* counter (1, 2, 3, ... whatever the reliable seqnos are), creates no
\* in-flight record and is never retransmitted; base, next_seqno and the
\* in-flight set are unchanged by it.
C14_UnreliableSendIgnoresWindow ==
    [][ /\ last_op'.op = "send_unreliable" =>
            /\ calls' = calls
            /\ api'.unreliable_seqno = api.unreliable_seqno + 1
            /\ conn' = << [ kind |-> "datagram",
                            data |-> DataFrame(1, api.unreliable_seqno + 1,
                                               TimestampMs(now), SendPayload) ] >>
            /\ api'.base = api.base
            /\ api'.next_seqno = api.next_seqno
            /\ api'.pending_acks = api.pending_acks
        /\ last_op'.op = "sweep" =>
            \A i \in 1..Len(conn') :
                /\ conn'[i].kind = "stream"
                /\ Unpack(conn'[i].data).channel_type = 0 ]_vars

\* C14 witness: the second unreliable send went out as a datagram while the
\* window was full and the sweeps had retransmitted the reliable frames
C14_Witness ==
    /\ last_op.op = "send_unreliable"
    /\ WindowFull(api)
    /\ api.unreliable_seqno = 2
    /\ Len(conn) = 1 /\ conn[1].kind = "datagram"
    /\ \E s \in DOMAIN api.pending_acks : api.pending_acks[s].retransmit_count > 0

\* the seqnos handed to the receive callback on the unreliable channel
UnreliableDelivered ==
    LET r == SelectSeq(callback_log, LAMBDA e : e[2] = 1)
    IN  [i \in 1..Len(r) |-> r[i][1]]

\* C15: the engine never reorders unreliable frames: when the network
\* neither reorders nor duplicates datagrams, the unreliable seqnos handed to
\* the callback are those that arrived, strictly increasing (gaps allowed).
C15_UnreliableOrderKept ==
    /\ \A i, j \in 1..Len(UnreliableDelivered) :
           i < j => UnreliableDelivered[i] < UnreliableDelivered[j]
    /\ \A i \in 1..Len(UnreliableDelivered) :
           UnreliableDelivered[i] \in api.metrics.received_unreliable_seqnos

\* C15 witness: three datagrams were delivered with a gap among them and
\* reliable frames were delivered in between
C15_Witness ==
    /\ UnreliableDelivered = <<1, 3, 4>>
    /\ Len(ReliableDelivered) = 2
    /\ callback_log[1][2] = 1
    /\ callback_log[Len(callback_log)][2] = 1

----------------------------------------------------------------------------
(* Claims about the metrics report *)

\* C16: for each channel and whatever label is passed, the delivery ratio of
\* the report equals |observed_seqnos| / max_observed_seqno as a percentage,
\* and 0 when max_observed_seqno is 0, after any mix of loss, reordering and
\* duplicated frames; so it never exceeds 100%.
C16_DeliveryRatioFromSeqnos ==
    \A label \in Labels : \A is_reliable \in BOOLEAN :
        LET m == api.metrics
            r == delivery_ratio_pct(m, label, is_reliable)
            observed == IF is_reliable THEN m.received_reliable_seqnos
                        ELSE m.received_unreliable_seqnos
            max_observed == IF is_reliable THEN m.max_seen_reliable_seqno
                            ELSE m.max_seen_unreliable_seqno
        IN  /\ r.num <= 100 * r.den
            /\ IF max_observed = 0 THEN r.num = 0
               ELSE r.num * max_observed = 100 * Cardinality(observed) * r.den

----------------------------------------------------------------------------
(* Claims about the framing round trip *)

\* C17: the payload handed to the receive callback is exactly the payload
\* given to send, for any byte string (also one that is not valid UTF-8), and
\* the seqno and channel are the ones the sender encoded: once every frame
\* the peer sent has been read, the i-th callback carries seqno i, channel 0
\* and the payload bytes of the i-th frame sent.
C17_PayloadRoundTrip ==
    peer_stream = << >> =>
        /\ Len(callback_log) = Len(peer_written)
        /\ \A i \in 1..Len(peer_written) :
               /\ callback_log[i][1] = i
               /\ callback_log[i][2] = 0
               /\ callback_log[i][3] =
                      Slice(peer_written[i], HeaderLen, Len(peer_written[i]))

----------------------------------------------------------------------------
(* Claims about misuse *)

\* C18: processing a received data frame while no receive callback has been
\* set fails fast and does not mutate state: next_expected, the reorder
\* buffer and the metrics counters are unchanged and no ACK is emitted.
C18_NoCallbackNoMutation ==
    [][ (/\ last_op'.op \in {"recv_reliable", "recv_unreliable"}
         /\ ~api.receiver_callback) =>
          /\ api'.next_expected_reliable_seqno = api.next_expected_reliable_seqno
          /\ api'.reliable_buffer = api.reliable_buffer
          /\ api'.metrics = api.metrics
          /\ conn' = << >> ]_vars

----------------------------------------------------------------------------
(* Claims about two engines on a link *)

\* the link is idle: every frame sent was carried and every ACK was read,
\* and no send is suspended
LinkQuiet ==
    /\ conn = << >>
    /\ peer_stream = << >>
    /\ \A c \in Callers : calls[c].pc = "idle"

\* the seqnos the peer's engine handed to its callback on the reliable channel
PeerDelivered ==
    LET r == SelectSeq(peer_world.log, LAMBDA e : e[2] = 0)
    IN  [i \in 1..Len(r) |-> r[i][1]]

\* C19: on a lossless in-order link, after N reliable sends and once every
\* resulting ACK has been processed, the receiver has delivered seqnos 1..N
\* in order, the sender has no in-flight record left and
\* base = next_seqno = N + 1.
C19_LosslessRunCompletes ==
    LinkQuiet =>
        LET N == api.metrics.total_sent_reliable
        IN  /\ PeerDelivered = [i \in 1..N |-> i]
            /\ DOMAIN api.pending_acks = {}
            /\ api.base = N + 1
            /\ api.next_seqno = N + 1

\* C19 witness: more sends than the window holds have completed, one of them
\* after waiting for window space
C19_Witness ==
    /\ LinkQuiet
    /\ api.metrics.total_sent_reliable = MaxSeq
    /\ last_op.op = "stream_read"
    /\ Len(PeerDelivered) = MaxSeq

\* C20: through the sender endpoint built by create_sender, every ACK frame
\* that arrives on the stream reaches the engine: once the frames sent over a
\* lossless link were carried and every ACK has arrived at the endpoint, all
\* sent seqnos are acknowledged and pending_acks is empty.
C20_ClientAcksReachEngine ==
    (conn = << >> /\ peer_stream = << >>) =>
        /\ api.acked_packets = 1..api.metrics.total_sent_reliable
        /\ DOMAIN api.pending_acks = {}

----------------------------------------------------------------------------
(* Claims about the reorder buffer *)

\* C21: in every reachable state of the receiver the reorder buffer holds no
\* seqno smaller than next_expected: a seqno that was delivered or skipped is
\* never (again) present in the buffer, whatever frames arrive afterwards.
C21_BufferAboveCursor ==
    \A s \in DOMAIN api.reliable_buffer : s >= api.next_expected_reliable_seqno

----------------------------------------------------------------------------
(* Claims about give-up and retransmission *)

\* the operation that produced this state handed the first copy of a
\* reliable frame to the transport (at time now)
JustDispatched ==
    /\ last_op.op \in {"send_reliable", "send_resume"}
    /\ ReliableSeqnosOnWire(conn) # << >>

\* C22: a reliable packet is declared lost by the sweep only when more than
\* give_up_threshold has elapsed since its frame was first handed to the
\* transport, also when its send call waited for window space: the seqno on
\* which a sweep enters its give-up branch is never the one whose frame was
\* first dispatched by the operation just before, at the same clock reading.
C22_GiveUpCountsFromDispatch ==
    [][ (JustDispatched /\ last_op'.op = "sweep") =>
          \A s \in ExpiredSeqnos(api, now) :
              (\A u \in ExpiredSeqnos(api, now) : s <= u) =>
                  s # ReliableSeqnosOnWire(conn)[1] ]_vars

\* C23: in S3 (the sender sends seqnos 1..5, every copy of seqno 3 is lost,
\* every other frame and every ACK is delivered) the sender gives up on seqno
\* 3 only: a sweep finds no seqno but 3 past the give-up threshold, and the
\* sweep that finds 3 there records the loss, removes its in-flight record,
\* marks it resolved and goes on, the records of 4 and 5 being left to an ACK.
C23_S3GiveUpOnThreeOnly ==
    [][ (last_op'.op = "sweep" /\ api.next_seqno = 5 + 1) =>
          /\ ExpiredSeqnos(api, now) \subseteq S3Lost
          /\ \A s \in ExpiredSeqnos(api, now) :
                 /\ s \notin DOMAIN api'.pending_acks
                 /\ s \in api'.acked_packets
          /\ \A s \in (DOMAIN api.pending_acks) \ S3Lost :
                 s \in DOMAIN api'.pending_acks
          /\ retransmit_task'.state = "sleeping" ]_vars

----------------------------------------------------------------------------
(* Claims about reordering and cumulative ACKs *)

\* the largest k such that the seqnos 1..k are all in S
ArrivedPrefix(S) ==
    CHOOSE k \in 0..Cardinality(S) : (\A i \in 1..k : i \in S) /\ (k + 1) \notin S

\* the values of the ACK frames the peer's engine has emitted, in order
PeerAckValues == [i \in 1..Len(peer_written) |-> Unpack(peer_written[i]).seqno]

\* C24: when reliable frames 1..N arrive in any order, each before any skip
\* timeout expires, the callbacks fire for 1..k in increasing order, k being
\* the largest value such that 1..k have all arrived, and the ACK emitted
\* after each arrival carries that k (none is emitted while k is 0).
C24_ReorderedDelivery ==
    LET k == ArrivedPrefix(peer_world.api.packet_arrival_times)
    IN  /\ PeerDelivered = [i \in 1..k |-> i]
        /\ last_op.op = "peer_arrival" =>
             IF k > 0
             THEN /\ Len(peer_world.conn) = 1
                  /\ peer_world.conn[1].kind = "stream"
                  /\ Unpack(peer_world.conn[1].data).channel_type = 2
                  /\ Unpack(peer_world.conn[1].data).seqno = k
             ELSE peer_world.conn = << >>

\* C24 witness: the arrival order 1, 2, 4, 3, 5 gave the callbacks 1, 2, 3,
\* 4, 5 and the ACKs 1, 2, 2, 4, 5
C24_Witness ==
    /\ PeerAckValues = <<1, 2, 2, 4, 5>>
    /\ PeerDelivered = <<1, 2, 3, 4, 5>>
    /\ last_op = Op("peer_arrival", 5)

NewlyDelivered ==
    { callback_log'[i][1] : i \in (Len(callback_log) + 1)..Len(callback_log') }

SkipDeliverAck(w, t) ==
    LET w2 == check_and_skip_missing_packets(w, t)
        w3 == deliver_in_order(w2)
        ack_seqno == w3.api.next_expected_reliable_seqno - 1
    IN  IF ack_seqno > 0
        THEN send_stream_data(w3, AckFrame(ack_seqno, t))
        ELSE w3

\* C26: a seqno the receiver has skipped produces no callback, ever: no
\* callback is made for a seqno below the cursor, and a frame that arrives
\* after its seqno was skipped is not delivered and does not disturb the
\* delivery of later seqnos: it is dropped, so that the reorder buffer, the
\* callbacks, the cursor, the missing-packet timers and the ACK are those of
\* an arrival that stored nothing.
C26_SkippedNeverDelivered ==
    [][ last_op'.op = "recv_reliable" =>
          /\ \A x \in NewlyDelivered : x >= api.next_expected_reliable_seqno
          /\ (/\ last_op'.arg < api.next_expected_reliable_seqno
              /\ last_op'.arg \notin api.metrics.received_reliable_seqnos) =>
                LET ref == SkipDeliverAck(Here, now)
                IN  /\ callback_log' = ref.log
                    /\ conn' = ref.conn
                    /\ api'.next_expected_reliable_seqno =
                           ref.api.next_expected_reliable_seqno
                    /\ api'.missing_packet_timers = ref.api.missing_packet_timers
                    /\ api'.metrics = ref.api.metrics
                    /\ api'.reliable_buffer = ref.api.reliable_buffer ]_vars

\* the in-flight seqnos a sweep at time t looks at and does not give up on
LiveSeqnos(a, t) ==
    { s \in DOMAIN a.pending_acks :
        /\ s \in a.base..(a.next_seqno - 1)
        /\ s \notin a.acked_packets
        /\ t - a.pending_acks[s].first_sent <= retransmit_timeout }

\* the frames an operation put on stream 0 that carry the bytes d
StreamCopies(c, d) ==
    Len(SelectSeq(c, LAMBDA f : f.kind = "stream" /\ f.data = d))

\* C27: in a retransmit sweep each in-flight seqno that is not past
\* give_up_threshold and has now - last_sent >= retransmit_interval is
\* re-sent on stream 0 with the frame bytes of its first transmission, its
\* last_sent becomes now and its retransmit count grows by one (the others
\* are left alone); the stored bytes are those first dispatched, and
\* first_sent and the stored bytes never change over the life of the record.
C27_RetransmitIdenticalFrame ==
    [][ /\ last_op'.op = "sweep" =>
            \A s \in LiveSeqnos(api, now) :
                LET info == api.pending_acks[s]
                IN  IF now - info.last_sent >= retransmit_interval
                    THEN /\ StreamCopies(conn', info.packet_data) = 1
                         /\ s \in DOMAIN api'.pending_acks
                         /\ api'.pending_acks[s] =
                              [info EXCEPT !.last_sent = now,
                                           !.retransmit_count = @ + 1]
                    ELSE /\ StreamCopies(conn', info.packet_data) = 0
                         /\ s \in DOMAIN api'.pending_acks
                         /\ api'.pending_acks[s] = info
        /\ \A s \in (DOMAIN api'.pending_acks) \ (DOMAIN api.pending_acks) :
               /\ StreamCopies(conn', api'.pending_acks[s].packet_data) = 1
               /\ Unpack(api'.pending_acks[s].packet_data).seqno = s
        /\ \A s \in (DOMAIN api.pending_acks) \cap (DOMAIN api'.pending_acks) :
               /\ api'.pending_acks[s].first_sent = api.pending_acks[s].first_sent
               /\ api'.pending_acks[s].packet_data = api.pending_acks[s].packet_data
      ]_vars

\* C28: once base > a, no frame with seqno <= a is ever retransmitted and no
\* give-up is ever recorded for such a seqno, in any later sweep: base never
\* decreases, and a sweep re-sends only seqnos >= base, leaves every record
\* and every resolution mark below base as it was, and enters its give-up
\* branch (where the task ends in the model) only for a seqno >= base.
C28_NothingBelowBase ==
    [][ /\ api'.base >= api.base
        /\ last_op'.op = "sweep" =>
            /\ \A i \in 1..Len(conn') :
                   Unpack(conn'[i].data).seqno >= api.base
            /\ \A s \in 1..(api.base - 1) :
                   /\ s \in DOMAIN api.pending_acks =>
                          /\ s \in DOMAIN api'.pending_acks
                          /\ api'.pending_acks[s] = api.pending_acks[s]
                   /\ s \in api'.acked_packets => s \in api.acked_packets
            /\ retransmit_task'.state = "failed" =>
                   \E s \in DOMAIN api.pending_acks :
                       /\ s >= api.base
                       /\ now - api.pending_acks[s].first_sent > retransmit_timeout
      ]_vars

\* C28 witness: a sweep has just re-sent seqno 6, at or above base, while
\* the record of a seqno below base, as long without a transmission, was
\* left alone
C28_Witness ==
    /\ last_op.op = "sweep"
    /\ ReliableSeqnosOnWire(conn) = <<6>>
    /\ api.base = 6
    /\ \E s \in DOMAIN api.pending_acks :
           /\ s < api.base
           /\ api.pending_acks[s].retransmit_count = 0
           /\ now - api.pending_acks[s].last_sent >= retransmit_interval

\* C29: a late or duplicate ACK whose value is smaller than base is a no-op:
\* base, next_seqno, the in-flight set, the resolved set and the RTT samples
\* are all unchanged (and nothing is sent).
C29_LateAckIsNoOp ==
    [][ (last_op'.op = "recv_ack" /\ last_op'.arg < api.base) =>
          /\ api'.base = api.base
          /\ api'.next_seqno = api.next_seqno
          /\ api'.pending_acks = api.pending_acks
          /\ api'.acked_packets = api.acked_packets
          /\ api'.metrics.rtt_records = api.metrics.rtt_records
          /\ conn' = << >> ]_vars

\* C29 witness: the ACK 3 has just arrived after the ACK 5 had moved base to
\* 6, with seqno 6 in flight
C29_Witness ==
    /\ last_op = Op("recv_ack", 3)
    /\ api.base = 6
    /\ api.acked_packets = 1..5
    /\ DOMAIN api.pending_acks = {6}
    /\ api.metrics.rtt_records = 5

----------------------------------------------------------------------------
(* Claims about stream coalescing *)

\* the number of frames in the read of k bytes that the step makes
FramesRead(k) == CHOOSE n \in 1..Unread : Len(Concat(NextFrames(n))) = k

\* C30: when one stream read contains N complete frames concatenated, all N
\* frames are processed, in order, with the same effect as if each had
\* arrived in its own read, and nothing of the read remains (two 9-byte ACK
\* frames with values 5 and 7 in one 18-byte chunk are both consumed and
\* leave base = 8).
C30_CoalescedFrames ==
    [][ last_op'.op = "stream_read" =>
          LET ref == FramesOneByOne(Here, NextFrames(FramesRead(last_op'.arg)),
                                    now)
          IN  /\ api' = ref.api
              /\ callback_log' = ref.log
              /\ conn' = ref.conn
              /\ Len(peer_stream') = Len(peer_stream) - last_op'.arg ]_vars

\* C30 witness: the ACK frames 5 and 7 came in one read of 18 bytes; both
\* were consumed and base is 8
C30_Witness ==
    /\ last_op = Op("stream_read", 2 * HeaderLen)
    /\ peer_written = <<PeerAckFrame(5), PeerAckFrame(7)>>
    /\ peer_stream = << >>
    /\ api.base = 8
    /\ api.acked_packets = 1..5
    /\ DOMAIN api.pending_acks = {}

----------------------------------------------------------------------------
(* Claims about concurrent and aborted sends *)

\* C31: when several reliable sends are suspended on a full window at the
\* same time and space opens, each obtains a distinct seqno, the seqnos
\* assigned are consecutive and the in-flight records never exceed
\* window_size: a send that resumes finds room, takes next_seqno, moves it by
\* one, records exactly that seqno and dispatches its frame, all in one step.
C31_SuspendedSendsAtomic ==
    [][ /\ last_op'.op = "send_resume" =>
            /\ ~WindowFull(api)
            /\ api'.next_seqno = api.next_seqno + 1
            /\ DOMAIN api'.pending_acks =
                   (DOMAIN api.pending_acks) \cup {api.next_seqno}
            /\ api.next_seqno \notin DOMAIN api.pending_acks
            /\ ReliableSeqnosOnWire(conn') = <<api.next_seqno>>
        /\ Cardinality(DOMAIN api'.pending_acks) <= window_size ]_vars

\* C31 witness: every caller was suspended at once, all of them have resumed
\* and hold the consecutive seqnos above the first window
C31_Witness ==
    /\ last_op.op = "send_resume"
    /\ \A c \in Callers : calls[c].pc = "idle"
    /\ api.next_seqno = window_size + NumCallers + 1
    /\ \A k \in 1..NumCallers : (window_size + k) \in DOMAIN api.pending_acks
    /\ api.metrics.total_sent_reliable = window_size + NumCallers

\* C32: cancelling a reliable send while it is suspended on a full window
\* leaves next_seqno, base and the in-flight set unchanged and puts nothing on
\* the wire, so no seqno gap is issued: the send that goes out next carries
\* the seqno after the last one dispatched.
C32_CancelLeavesNoGap ==
    [][ /\ last_op'.op = "send_cancel" =>
            /\ api'.next_seqno = api.next_seqno
            /\ api'.base = api.base
            /\ api'.pending_acks = api.pending_acks
            /\ conn' = << >>
        /\ last_op'.op = "send_resume" =>
            ReliableSeqnosOnWire(conn') = <<api.metrics.total_sent_reliable + 1>>
      ]_vars

\* C32 witness: a send was cancelled while the window was full and another
\* send was still suspended on it
C32_Witness ==
    /\ last_op = Op("send_cancel", 1)
    /\ WindowFull(api)
    /\ calls[1].pc = "idle"
    /\ calls[2].pc = "waiting"

----------------------------------------------------------------------------
(* Claims about loss accounting and ACK values at the receiver *)

\* the set of the seqnos the peer's engine has delivered
DeliveredSeqnos == { PeerDelivered[i] : i \in 1..Len(PeerDelivered) }

\* C33: on the reliable channel, after any sequence of receive events,
\* packets_lost of the report is the number of seqnos below the largest
\* delivered seqno that were never delivered, it is never negative, and
\* packets_received + packets_lost is the largest delivered seqno.
C33_LostCountsSkipped ==
    LET m == peer_world.api.metrics
        largest == IF DeliveredSeqnos = {} THEN 0 ELSE SetMax(DeliveredSeqnos)
        lost == packets_lost(m, TRUE)
    IN  /\ lost = Cardinality((1..largest) \ DeliveredSeqnos)
        /\ lost >= 0
        /\ m.total_recv_reliable + lost = largest
        /\ Len(PeerDelivered) = Cardinality(DeliveredSeqnos)

\* C33 witness: the scenario S3, frames 1, 2, 4, 5 delivered and 3 skipped,
\* reported as one packet lost and 4 of 5 received
C33_Witness ==
    /\ DeliveredSeqnos = {1, 2, 4, 5}
    /\ packets_lost(peer_world.api.metrics, TRUE) = 1
    /\ peer_world.api.metrics.total_recv_reliable = 4
    /\ delivery_ratio_pct(peer_world.api.metrics, {"Receiver"}, TRUE)
         = [num |-> 400, den |-> 5]

\* C38: the ACK values one receiver emits over time are non-decreasing and
\* never exceed the largest reliable seqno it has received, also when seqnos
\* are skipped.
C38_AckValuesMonotone ==
    [][ LET acks == PeerAckValues'
        IN  /\ \A i, j \in 1..Len(acks) : i <= j => acks[i] <= acks[j]
            /\ \A i \in (Len(peer_written) + 1)..Len(acks) :
                   acks[i] <= SetMax(peer_world'.api.packet_arrival_times)
      ]_vars

\* C38 witness: the peer emitted ACKs 1 and 2 and then, having skipped the
\* seqno 3 that never arrived, ACK 5
C38_Witness ==
    /\ PeerAckValues = <<1, 2, 5>>
    /\ 3 \notin peer_world.api.packet_arrival_times
    /\ peer_world.api.next_expected_reliable_seqno = 6

----------------------------------------------------------------------------
(* Claims about timestamp reconstruction *)

\* the two clocks of the state are less than 2^31 ms apart
BoundedSkew ==
    WideLess(WideAbsDiff(last_op.arg.current_time_ms, last_op.arg.t_ms),
             <<Pow2(15), 0>>)

\* C34: for every receiver time now_ms and every sender time t_ms with
\* |now_ms - t_ms| < 2^31, reconstructing from the wire value t_ms mod 2^32
\* returns t_ms, also when the two lie on different sides of a 2^32 wrap.
C34_ReconstructionExact ==
    (last_op.op = "reconstruct_timestamp" /\ BoundedSkew) =>
        last_op.arg.best_candidate = last_op.arg.t_ms

\* C34 witness: a timestamp reconstructed across a wrap, the sender's clock in
\* the epoch before the receiver's and almost 2^31 ms behind it
C34_Witness ==
    /\ last_op.op = "reconstruct_timestamp"
    /\ BoundedSkew
    /\ last_op.arg.current_time_ms = <<396 * Pow2(16), 0>>
    /\ last_op.arg.t_ms = <<395 * Pow2(16) + Pow2(15), 1>>
    /\ last_op.arg.best_candidate = last_op.arg.t_ms

----------------------------------------------------------------------------
(* Claims about the in-flight set *)

\* C35: in every reachable sender state the in-flight set pending_acks
\* contains only seqnos in [base, next_seqno), is disjoint from the resolved
\* set acked_packets, and has at most window_size entries.
C35_InFlightWithinWindow ==
    /\ \A s \in DOMAIN api.pending_acks : api.base <= s /\ s < api.next_seqno
    /\ (DOMAIN api.pending_acks) \cap api.acked_packets = {}
    /\ Cardinality(DOMAIN api.pending_acks) <= window_size

\* C36: a send whose frame cannot be encoded fails without changing
\* next_seqno, the unreliable counter, base or the in-flight set, so it leaves
\* no seqno in [base, next_seqno) that has neither an in-flight record nor a
\* resolved mark.
C36_FailedEncodeChangesNothing ==
    [][ last_op'.op = "send_oversize" =>
            /\ api'.next_seqno = api.next_seqno
            /\ api'.unreliable_seqno = api.unreliable_seqno
            /\ api'.base = api.base
            /\ api'.pending_acks = api.pending_acks
            /\ \A s \in api.base..(api.next_seqno - 1) :
                   (s \in DOMAIN api.pending_acks \/ s \in api.acked_packets)
                       => (s \in DOMAIN api'.pending_acks \/ s \in api'.acked_packets)
            /\ \A s \in api'.base..(api'.next_seqno - 1) :
                   s < api.next_seqno
      ]_vars

\* C39: each reliable packet is put on the wire a bounded number of times:
\* with sweeps every retransmit_interval, retransmit_count never exceeds
\* give_up_threshold / retransmit_interval, and within one sweep a seqno that
\* is given up is not also retransmitted.
C39_RetransmissionsBounded ==
    [][ /\ \A s \in DOMAIN api'.pending_acks :
               api'.pending_acks[s].retransmit_count
                   <= retransmit_timeout \div retransmit_interval
        /\ last_op'.op = "sweep" =>
               \A s \in DOMAIN api.pending_acks :
                   (s >= api.base /\ now - api.pending_acks[s].first_sent > retransmit_timeout)
                       => \A i \in 1..Len(ReliableSeqnosOnWire(conn')) :
                              ReliableSeqnosOnWire(conn')[i] # s
      ]_vars

\* C39 witness: a sweep found a seqno past the give-up threshold after it had
\* been retransmitted give_up_threshold / retransmit_interval times
C39_Witness ==
    /\ last_op.op = "sweep"
    /\ \E s \in DOMAIN api.pending_acks :
         /\ s >= api.base
         /\ api.pending_acks[s].retransmit_count
                = retransmit_timeout \div retransmit_interval
         /\ now - api.pending_acks[s].first_sent > retransmit_timeout

----------------------------------------------------------------------------
(* Claims about the classification of ACK frames *)

\* C37: a frame with the ACK bit set is never treated as data, whatever its
\* channel bit and whichever transport carried it: it triggers no callback,
\* is never inserted in the reorder buffer, changes no receive-side state
\* and never causes an ACK (or anything else) to be emitted in reply.
C37_AckNeverData ==
    [][ last_op'.op = "recv_ack_flagged" =>
            /\ callback_log' = callback_log
            /\ api'.reliable_buffer = api.reliable_buffer
            /\ api'.packet_arrival_times = api.packet_arrival_times
            /\ api'.next_expected_reliable_seqno = api.next_expected_reliable_seqno
            /\ api'.missing_packet_timers = api.missing_packet_timers
            /\ api'.metrics.total_received = api.metrics.total_received
            /\ api'.metrics.total_recv_reliable = api.metrics.total_recv_reliable
            /\ api'.metrics.total_recv_unreliable = api.metrics.total_recv_unreliable
            /\ api'.metrics.received_reliable_seqnos = api.metrics.received_reliable_seqnos
            /\ api'.metrics.received_unreliable_seqnos = api.metrics.received_unreliable_seqnos
            /\ api'.metrics.max_seen_reliable_seqno = api.metrics.max_seen_reliable_seqno
            /\ api'.metrics.max_seen_unreliable_seqno = api.metrics.max_seen_unreliable_seqno
            /\ conn' = << >>
      ]_vars

\* C37 witness: an ACK frame with the channel bit set and a payload came in a
\* datagram while the callback was set and a reliable frame waited in the
\* reorder buffer; it resolved a seqno in flight
C37_Witness ==
    /\ last_op.op = "recv_ack_flagged"
    /\ last_op.arg.flag = 3
    /\ last_op.arg.payload_len > 0
    /\ ~last_op.arg.is_reliable
    /\ api.receiver_callback
    /\ DOMAIN api.reliable_buffer # {}
    /\ last_op.arg.seqno \in api.acked_packets

----------------------------------------------------------------------------
(* Claims about the two halves of the engine *)

\* C40: base, next_seqno, next_expected and the unreliable send counter never
\* decrease under any operation, and the two halves are independent:
\* processing reliable or unreliable data leaves base, next_seqno and the
\* in-flight set unchanged, and processing an ACK or running a sweep leaves
\* next_expected, the reorder buffer and the missing-packet timers unchanged.
C40_MonotoneAndIndependent ==
    [][ /\ api'.base >= api.base
        /\ api'.next_seqno >= api.next_seqno
        /\ api'.next_expected_reliable_seqno >= api.next_expected_reliable_seqno
        /\ api'.unreliable_seqno >= api.unreliable_seqno
        /\ last_op'.op \in {"recv_reliable", "recv_unreliable"} =>
               /\ api'.base = api.base
               /\ api'.next_seqno = api.next_seqno
               /\ api'.pending_acks = api.pending_acks
        /\ last_op'.op \in {"recv_ack", "sweep"} =>
               /\ api'.next_expected_reliable_seqno = api.next_expected_reliable_seqno
               /\ api'.reliable_buffer = api.reliable_buffer
               /\ api'.missing_packet_timers = api.missing_packet_timers
      ]_vars

\* C40 witness: reliable data was delivered past the sender's base while sends
\* were in flight
C40_Witness ==
    /\ last_op.op = "recv_reliable"
    /\ api.next_expected_reliable_seqno > api.base
    /\ DOMAIN api.pending_acks # {}
    /\ DOMAIN api.reliable_buffer # {}
    /\ api.unreliable_seqno > 0

====
